---- MODULE Spec2Model ----
(***************************************************************************)
(* The identity and admission layer of the video-analytics API gateway:    *)
(* register / login / refresh / verify_token (src/api-gateway/src/auth.rs) *)
(* and the per-client rate limiter (src/api-gateway/src/middleware/        *)
(* rate_limit.rs), as state machines over the user table, the session      *)
(* table, the clock and the limiter map.                                   *)
(***************************************************************************)
EXTENDS Integers, Sequences, FiniteSets, TLC

VARIABLES
    now,        \* Utc::now() / NOW(), in seconds
    ticks,      \* number of clock advances so far (bounds the clock)
    users,      \* the users table, in insertion order; a row's id is its index
    sessions,   \* the user_sessions table, in insertion order; a row's id is its index
    issued,     \* every refresh token a 200 response of login / refresh has carried
    rotated,    \* every refresh token a successful refresh has consumed
    regpw,      \* per user id: the password it registered with (history only, never stored)
    resp,       \* the response of the last handler that ran
    rpc,        \* per concurrent refresh call: "idle", "read" (scan done, UPDATE pending), "done"
    rreq,       \* per concurrent refresh call: what it presented and what its scan found
    limiters,   \* RateLimitLayer.ip_limiters: client identity -> GCRA state (tat), absent if unseen
    inflight,   \* per identity: calls that hold the limiter and have not run check() yet
    admitted,   \* per identity: requests forwarded downstream
    rejected,   \* per identity: requests answered 429
    first,      \* per identity: the time of its first request
    mono,       \* the limiter's monotonic clock, in milliseconds
    advances,   \* number of advances of mono so far (bounds it)
    vin,        \* verify_token's input: token, secret, clock
    vout        \* verify_token's result on vin ("none" before the call)

vars == <<now, ticks, users, sessions, issued, rotated, regpw, resp, rpc, rreq,
          limiters, inflight, admitted, rejected, first, mono, advances, vin, vout>>

authVars == <<now, ticks, users, sessions, issued, rotated, regpw, resp>>
raceVars == <<rpc, rreq>>
rateVars == <<limiters, inflight, admitted, rejected, first, mono, advances>>
verifyVars == <<vin, vout>>

(***************************************************************************)
(* Bounds of the model.                                                    *)
(***************************************************************************)
MaxUsers == 2
MaxSessions == 2
MaxTicks == 1
MaxRequests == 12
MaxInflight == 2
MaxAdvances == 2
MaxServed == 62

(***************************************************************************)
(* Program constants.                                                      *)
(***************************************************************************)
AccessTokenHours == 24          \* generate_access_token: Duration::hours(24)
RefreshTokenExpiryDays == 30    \* config.auth.refresh_token_expiry_days default
MinPasswordLen == 8             \* CreateUserInput: #[validate(length(min = 8))]
BcryptMaxBytes == 72            \* bcrypt::hash / verify read the first 72 bytes of their input
JwtLeeway == 60                 \* jsonwebtoken Validation::default(): leeway of 60 seconds
LayerPerMinute == 60            \* RateLimitLayer::new(): Quota::per_minute(60)
ConfigRequestsPerMinute == 60   \* config.rate_limit.requests_per_minute default
ConfigBurstSize == 10           \* config.rate_limit.burst_size default

AccessTtl == AccessTokenHours * 3600
RefreshTtl == RefreshTokenExpiryDays * 86400

JwtSecret == "server-secret"    \* state.config.jwt_secret
OtherSecret == "other-secret"   \* any secret that is not the server's

(***************************************************************************)
(* Strings as sequences of characters.                                     *)
(***************************************************************************)
Pad(n, c) == [i \in 1..n |-> c]

EmailA == <<"a", "@", "x">>
EmailB == <<"b", "@", "x">>
EmailBad == <<"a", "x">>
Emails == {EmailA, EmailB, EmailBad}

PwShort == Pad(MinPasswordLen - 1, "p")
PwGood == Pad(MinPasswordLen, "p")
PwOther == Pad(MinPasswordLen, "q")
PwLongX == Pad(BcryptMaxBytes, "a") \o <<"x">>
PwLongY == Pad(BcryptMaxBytes, "a") \o <<"y">>
Passwords == {PwShort, PwGood, PwOther, PwLongX, PwLongY}

Roles == {"Admin", "User", "Viewer"}
RoleInputs == {"None", "Admin"}

(***************************************************************************)
(* validator: #[validate(email)] and #[validate(length(min = 8))].         *)
(***************************************************************************)
IsEmail(e) ==
    \E i \in 2..(Len(e) - 1) :
        /\ e[i] = "@"
        /\ \A j \in 1..Len(e) : e[j] = "@" => j = i

\* A validator without the length rule on the password.
ValidateCreateUserEmailOnly(input) == IsEmail(input.email)

ValidateCreateUser(input) ==
    /\ IsEmail(input.email)
    /\ Len(input.password) >= MinPasswordLen

ValidateLogin(input) == IsEmail(input.email)

(***************************************************************************)
(* bcrypt.  hash(input, cost) hashes the input's bytes followed by a NUL,   *)
(* cut to BcryptMaxBytes bytes, under a random salt it stores in the hash; *)
(* verify(input, h) recomputes under h's salt and compares.  A hash is     *)
(* modelled by what it retains of its input (key): the salt decides        *)
(* nothing verify returns.                                                 *)
(***************************************************************************)
BcryptInput(bytes) ==
    IF Len(bytes) >= BcryptMaxBytes
    THEN SubSeq(bytes, 1, BcryptMaxBytes)
    ELSE Append(bytes, "NUL")

BcryptHash(key) == [key |-> key]

BcryptVerify(key, h) == h.key = key

(***************************************************************************)
(* AppError and its IntoResponse (error.rs).                               *)
(***************************************************************************)
AppError(kind, msg) == [kind |-> kind, msg |-> msg]

StatusOf(err) ==
    CASE err.kind = "Database" -> 500
      [] err.kind = "Authentication" -> 401
      [] err.kind = "Authorization" -> 403
      [] err.kind = "Validation" -> 400
      [] err.kind = "Conflict" -> 409
      [] err.kind = "RateLimited" -> 429
      [] err.kind = "Internal" -> 500
      [] err.kind = "Jwt" -> 401
      [] err.kind = "NotFound" -> 404
      [] err.kind = "BadRequest" -> 400
      [] err.kind = "ServiceUnavailable" -> 503
      [] err.kind = "Redis" -> 500
      [] err.kind = "HttpClient" -> 502
      [] err.kind = "Serialization" -> 500
      [] err.kind = "Config" -> 500

CodeOf(err) ==
    CASE err.kind = "Database" -> "DATABASE_ERROR"
      [] err.kind = "Authentication" -> "AUTHENTICATION_ERROR"
      [] err.kind = "Authorization" -> "AUTHORIZATION_ERROR"
      [] err.kind = "Validation" -> "VALIDATION_ERROR"
      [] err.kind = "Conflict" -> "CONFLICT"
      [] err.kind = "RateLimited" -> "RATE_LIMITED"
      [] err.kind = "Internal" -> "INTERNAL_ERROR"
      [] err.kind = "Jwt" -> "INVALID_TOKEN"
      [] err.kind = "NotFound" -> "NOT_FOUND"
      [] err.kind = "BadRequest" -> "BAD_REQUEST"
      [] err.kind = "ServiceUnavailable" -> "SERVICE_UNAVAILABLE"
      [] err.kind = "Redis" -> "CACHE_ERROR"
      [] err.kind = "HttpClient" -> "EXTERNAL_SERVICE_ERROR"
      [] err.kind = "Serialization" -> "DATA_PROCESSING_ERROR"
      [] err.kind = "Config" -> "CONFIG_ERROR"

MessageOfDetail(err) == err.msg

MessageOf(err) ==
    CASE err.kind = "Database" -> "Database error occurred"
      [] err.kind = "RateLimited" -> "Rate limit exceeded"
      [] err.kind = "Internal" -> "Internal server error"
      [] err.kind = "Jwt" -> "Invalid token"
      [] err.kind = "Redis" -> "Cache error occurred"
      [] err.kind = "HttpClient" -> "External service error"
      [] err.kind = "Serialization" -> "Data processing error"
      [] err.kind = "Config" -> "Configuration error"
      [] OTHER -> err.msg

NoToken == <<>>

\* The response of a handler that returned Err(err).
ErrResponse(err) ==
    [status |-> StatusOf(err), kind |-> err.kind, code |-> CodeOf(err),
     message |-> MessageOf(err), uid |-> 0,
     access_token |-> NoToken, refresh_token |-> NoToken]

\* The response of a handler that returned Ok(Json(..)).
OkResponse(uid, access, refresh) ==
    [status |-> 200, kind |-> "Ok", code |-> "OK",
     message |-> "", uid |-> uid,
     access_token |-> access, refresh_token |-> refresh]

(***************************************************************************)
(* jsonwebtoken.  A token is header.payload.signature; the signature is a  *)
(* keyed MAC of header.payload (HMAC-SHA256, 32 bytes), modelled as what   *)
(* it is computed from.                                                    *)
(***************************************************************************)
JwtHeader == "HS256"

Sign(secret, header, claims) ==
    [key |-> secret, header |-> header, claims |-> claims, bytes |-> 32]

Encode(claims, secret) == <<JwtHeader, claims, Sign(secret, JwtHeader, claims)>>

\* Claims { sub, email, role, exp, iat } of user row `uid` minted at `t`.
MakeClaims(us, uid, t, ttl) ==
    [sub |-> uid, email |-> us[uid].email, role |-> us[uid].role,
     exp |-> t + ttl, iat |-> t]

generate_access_token(us, uid, secret, t) == Encode(MakeClaims(us, uid, t, AccessTtl), secret)

generate_refresh_token(us, uid, t) == Encode(MakeClaims(us, uid, t, RefreshTtl), JwtSecret)

\* decode::<Claims>(token, key, &Validation::default()): three parts, the
\* signature recomputed under the verifier's secret, exp not before now - leeway.
Decode(token, secret, t) ==
    IF Len(token) # 3 THEN [ok |-> FALSE, error |-> "InvalidToken"]
    ELSE IF token[1] # JwtHeader THEN [ok |-> FALSE, error |-> "InvalidAlgorithm"]
    ELSE IF token[3] # Sign(secret, token[1], token[2])
         THEN [ok |-> FALSE, error |-> "InvalidSignature"]
    ELSE IF token[2].exp < t - JwtLeeway THEN [ok |-> FALSE, error |-> "ExpiredSignature"]
    ELSE [ok |-> TRUE, claims |-> token[2]]

\* A verification that also looks the subject up in the users table.
verify_token_known_subject(token, secret, t) ==
    LET d == Decode(token, secret, t) IN
    IF d.ok /\ d.claims.sub \in 1..Len(users) THEN [ok |-> TRUE, claims |-> d.claims]
    ELSE IF d.ok THEN [ok |-> FALSE, err |-> AppError("Authentication", "User not found")]
    ELSE [ok |-> FALSE, err |-> AppError("Jwt", d.error)]

\* verify_token: `?` turns the library's error into AppError::Jwt.
verify_token(token, secret, t) ==
    LET d == Decode(token, secret, t) IN
    IF d.ok THEN [ok |-> TRUE, claims |-> d.claims]
    ELSE [ok |-> FALSE, err |-> AppError("Jwt", d.error)]

(***************************************************************************)
(* What bcrypt reads of a credential string.  A token's text is            *)
(*   base64(header) "." base64(payload) "." base64(signature)              *)
(* with a 36-character header part; the payload JSON starts {"sub":"<id>", *)
(* so the first BcryptMaxBytes characters of the text cover the header and *)
(* the first 18 of the 36 characters of the subject id, and nothing of     *)
(* email, role, exp, iat or the signature.  Ids are random (Uuid::new_v4), *)
(* so that prefix identifies the id.  Any other credential string is       *)
(* shorter than BcryptMaxBytes and is read whole.                          *)
(***************************************************************************)
Garbage == <<"garbage">>

CredentialBcryptInput(cred) ==
    IF Len(cred) >= 2 THEN <<cred[1], cred[2].sub>> ELSE Append(cred, "NUL")

(***************************************************************************)
(* register (auth.rs).  Returns the users table and the response.          *)
(***************************************************************************)
EmailTaken(us, email) == \E i \in 1..Len(us) : us[i].email = email

\* A registration that overwrites the row of a taken email.
register_upsert(us, input) ==
    IF ~ValidateCreateUser(input)
    THEN [users |-> us, out |-> ErrResponse(AppError("Validation", "invalid input"))]
    ELSE LET row == [email |-> input.email,
                     password_hash |-> BcryptHash(BcryptInput(input.password)),
                     role |-> IF input.role = "None" THEN "User" ELSE input.role]
         IN  IF EmailTaken(us, input.email)
             THEN [users |-> [us EXCEPT ![CHOOSE i \in 1..Len(us) : us[i].email = input.email]
                                            = row],
                   out |-> ErrResponse(AppError("Conflict", "User already exists"))]
             ELSE [users |-> Append(us, row),
                   out |-> OkResponse(Len(us) + 1, NoToken, NoToken)]

\* A registration that stores the default role whatever the request says.
register_as_user(us, input) ==
    IF ~ValidateCreateUser(input)
    THEN [users |-> us, out |-> ErrResponse(AppError("Validation", "invalid input"))]
    ELSE IF EmailTaken(us, input.email)
    THEN [users |-> us, out |-> ErrResponse(AppError("Conflict", "User already exists"))]
    ELSE LET row == [email |-> input.email,
                     password_hash |-> BcryptHash(BcryptInput(input.password)),
                     role |-> "User"]
         IN  [users |-> Append(us, row),
              out |-> OkResponse(Len(us) + 1, NoToken, NoToken)]

register(us, input) ==
    IF ~ValidateCreateUser(input)
    THEN [users |-> us, out |-> ErrResponse(AppError("Validation", "invalid input"))]
    ELSE IF EmailTaken(us, input.email)
    THEN [users |-> us, out |-> ErrResponse(AppError("Conflict", "User already exists"))]
    ELSE LET row == [email |-> input.email,
                     password_hash |-> BcryptHash(BcryptInput(input.password)),
                     role |-> IF input.role = "None" THEN "User" ELSE input.role]
         IN  [users |-> Append(us, row),
              out |-> OkResponse(Len(us) + 1, NoToken, NoToken)]

(***************************************************************************)
(* login (auth.rs).  Returns the sessions table and the response.          *)
(***************************************************************************)
UserByEmail(us, email) == CHOOSE i \in 1..Len(us) : us[i].email = email

\* A row that keeps the refresh token as it is.
SessionRowPlain(uid, refresh, t) ==
    [user_id |-> uid, token_hash |-> [key |-> refresh], expires_at |-> t + RefreshTtl]

SessionRow(uid, refresh, t) ==
    [user_id |-> uid,
     token_hash |-> BcryptHash(CredentialBcryptInput(refresh)),
     expires_at |-> t + RefreshTtl]

\* A login that answers with the tokens it generated although the INSERT
\* of the session row failed.
login_tokens_before_insert(us, ss, input, t, fault) ==
    IF ~ValidateLogin(input)
    THEN [sessions |-> ss, out |-> ErrResponse(AppError("Validation", "invalid input"))]
    ELSE IF fault = "user"
    THEN [sessions |-> ss, out |-> ErrResponse(AppError("Database", "users"))]
    ELSE IF ~EmailTaken(us, input.email)
    THEN [sessions |-> ss, out |-> ErrResponse(AppError("Authentication", "Invalid credentials"))]
    ELSE LET uid == UserByEmail(us, input.email) IN
         IF ~BcryptVerify(BcryptInput(input.password), us[uid].password_hash)
         THEN [sessions |-> ss,
               out |-> ErrResponse(AppError("Authentication", "Invalid credentials"))]
         ELSE LET access == generate_access_token(us, uid, JwtSecret, t)
                  refresh == generate_refresh_token(us, uid, t)
              IN  [sessions |-> IF fault = "insert" THEN ss
                                ELSE Append(ss, SessionRow(uid, refresh, t)),
                   out |-> OkResponse(uid, access, refresh)]

\* `fault` is the database call that fails, if any: the SELECT of the user
\* or the INSERT of the session row.
login(us, ss, input, t, fault) ==
    IF ~ValidateLogin(input)
    THEN [sessions |-> ss, out |-> ErrResponse(AppError("Validation", "invalid input"))]
    ELSE IF fault = "user"
    THEN [sessions |-> ss, out |-> ErrResponse(AppError("Database", "users"))]
    ELSE IF ~EmailTaken(us, input.email)
    THEN [sessions |-> ss, out |-> ErrResponse(AppError("Authentication", "Invalid credentials"))]
    ELSE LET uid == UserByEmail(us, input.email) IN
         IF ~BcryptVerify(BcryptInput(input.password), us[uid].password_hash)
         THEN [sessions |-> ss,
               out |-> ErrResponse(AppError("Authentication", "Invalid credentials"))]
         ELSE IF fault = "insert"
         THEN [sessions |-> ss, out |-> ErrResponse(AppError("Database", "user_sessions"))]
         ELSE LET access == generate_access_token(us, uid, JwtSecret, t)
                  refresh == generate_refresh_token(us, uid, t)
              IN  [sessions |-> Append(ss, SessionRow(uid, refresh, t)),
                   out |-> OkResponse(uid, access, refresh)]

(***************************************************************************)
(* refresh_token (auth.rs), in its two halves: the header and the scan of  *)
(* the unexpired sessions, then the rotation of the row the scan stopped   *)
(* at.                                                                     *)
(***************************************************************************)
HeaderAbsent == [kind |-> "absent"]
HeaderBinary == [kind |-> "binary"]
HeaderText(scheme, cred) == [kind |-> "text", scheme |-> scheme, cred |-> cred]

\* headers.get("authorization") .to_str() .strip_prefix("Bearer ")
ExtractBearer(header) ==
    IF header.kind = "absent"
    THEN [ok |-> FALSE, err |-> AppError("Authentication", "Missing authorization header")]
    ELSE IF header.kind = "binary"
    THEN [ok |-> FALSE, err |-> AppError("Authentication", "Invalid authorization header")]
    ELSE IF header.scheme # "Bearer"
    THEN [ok |-> FALSE, err |-> AppError("Authentication", "Invalid authorization format")]
    ELSE [ok |-> TRUE, cred |-> header.cred]

\* A query that also returns the rows expiring at this very instant.
UnexpiredSessionsInclusive(ss, t) == {i \in 1..Len(ss) : ss[i].expires_at >= t}

\* SELECT * FROM user_sessions WHERE expires_at > NOW()
UnexpiredSessions(ss, t) == {i \in 1..Len(ss) : ss[i].expires_at > t}

\* The rows at which the scan can stop: the query has no ORDER BY, so the
\* first row that verifies is any unexpired row that verifies.
MatchingSessions(ss, cred, t) ==
    {i \in UnexpiredSessions(ss, t) :
        BcryptVerify(CredentialBcryptInput(cred), ss[i].token_hash)}

\* An UPDATE keyed by the owning user instead of the row.
UpdateSessionsOfUser(ss, sid, hash, expires) ==
    [i \in 1..Len(ss) |->
        IF ss[i].user_id = ss[sid].user_id
        THEN [ss[i] EXCEPT !.token_hash = hash, !.expires_at = expires]
        ELSE ss[i]]

\* UPDATE user_sessions SET token_hash = $1, expires_at = $2 WHERE id = $3
UpdateSession(ss, sid, hash, expires) ==
    [ss EXCEPT ![sid] = [@ EXCEPT !.token_hash = hash, !.expires_at = expires]]

\* A rotation whose row is written although the UPDATE reports a failure.
RotateSessionWriteThenFail(us, ss, sid, t, fault) ==
    IF fault = "user" \/ ss[sid].user_id > Len(us)
    THEN [sessions |-> ss, out |-> ErrResponse(AppError("Database", "users"))]
    ELSE LET uid == ss[sid].user_id
             access == generate_access_token(us, uid, JwtSecret, t)
             refresh == generate_refresh_token(us, uid, t)
             hash == BcryptHash(CredentialBcryptInput(refresh))
         IN  IF fault = "update"
             THEN [sessions |-> UpdateSession(ss, sid, hash, t + RefreshTtl),
                   out |-> ErrResponse(AppError("Database", "update"))]
             ELSE [sessions |-> UpdateSession(ss, sid, hash, t + RefreshTtl),
                   out |-> OkResponse(uid, access, refresh)]

\* A rotation that extends the row before it reads the user.
RotateSessionExtendFirst(us, ss, sid, t, fault) ==
    IF fault = "user" \/ ss[sid].user_id > Len(us)
    THEN [sessions |-> UpdateSession(ss, sid, ss[sid].token_hash, t + RefreshTtl),
          out |-> ErrResponse(AppError("Database", "users"))]
    ELSE LET uid == ss[sid].user_id
             access == generate_access_token(us, uid, JwtSecret, t)
             refresh == generate_refresh_token(us, uid, t)
             hash == BcryptHash(CredentialBcryptInput(refresh))
         IN  IF fault = "update"
             THEN [sessions |-> ss, out |-> ErrResponse(AppError("Database", "update"))]
             ELSE [sessions |-> UpdateSession(ss, sid, hash, t + RefreshTtl),
                   out |-> OkResponse(uid, access, refresh)]

\* From "Get user" to the response, for the row `sid` the scan stopped at.
\* `fault` is the database call that fails, if any.
RotateSession(us, ss, sid, t, fault) ==
    IF fault = "user" \/ ss[sid].user_id > Len(us)
    THEN [sessions |-> ss, out |-> ErrResponse(AppError("Database", "users"))]
    ELSE LET uid == ss[sid].user_id
             access == generate_access_token(us, uid, JwtSecret, t)
             refresh == generate_refresh_token(us, uid, t)
             hash == BcryptHash(CredentialBcryptInput(refresh))
         IN  IF fault = "update"
             THEN [sessions |-> ss, out |-> ErrResponse(AppError("Database", "update"))]
             ELSE [sessions |-> UpdateSession(ss, sid, hash, t + RefreshTtl),
                   out |-> OkResponse(uid, access, refresh)]

\* From the header to the end of the scan.
ScanSessions(ss, header, t, fault) ==
    LET b == ExtractBearer(header) IN
    IF ~b.ok THEN [ok |-> FALSE, err |-> b.err]
    ELSE IF fault = "list"
    THEN [ok |-> FALSE, err |-> AppError("Database", "user_sessions")]
    ELSE IF MatchingSessions(ss, b.cred, t) = {}
    THEN [ok |-> FALSE, err |-> AppError("Authentication", "Invalid refresh token")]
    ELSE [ok |-> TRUE, cred |-> b.cred, found |-> MatchingSessions(ss, b.cred, t)]

\* The whole handler run without interruption; `sid` is where the scan stops
\* (used only when some row matches).
refresh_token(us, ss, header, t, fault, sid) ==
    LET s == ScanSessions(ss, header, t, fault) IN
    IF ~s.ok THEN [sessions |-> ss, out |-> ErrResponse(s.err)]
    ELSE RotateSession(us, ss, sid, t, fault)

(***************************************************************************)
(* The admission controller (middleware/rate_limit.rs) over governor's     *)
(* direct rate limiter.                                                    *)
(***************************************************************************)
MaxOf(a, b) == IF a >= b THEN a ELSE b

\* Quota::per_minute(n): one cell every 60 s / n, and a burst of n.
QuotaPerMinute(n) == [max_burst |-> n, replenish_1_per |-> 60000 \div n]

\* RateLimitLayer::new(): the layer main.rs installs.
LayerQuota == QuotaPerMinute(LayerPerMinute)

\* The quota the configuration describes.
ConfigQuota == [max_burst |-> ConfigBurstSize,
                replenish_1_per |-> 60000 \div ConfigRequestsPerMinute]

\* RateLimiter::direct(quota): no arrival recorded yet.
NoTat == -1

\* governor's Gcra::test_and_update on the limiter's state at time t0.
GcraCheck(quota, tat, t0) ==
    LET t == quota.replenish_1_per
        tau == quota.replenish_1_per * quota.max_burst
        tat1 == IF tat = NoTat THEN t0 + t ELSE tat
        earliest == MaxOf(tat1 - tau, 0)
    IN  IF t0 < earliest THEN [ok |-> FALSE, tat |-> tat]
        ELSE [ok |-> TRUE, tat |-> MaxOf(tat1, t0) + t]

\* str::trim on a string of characters.
RECURSIVE TrimStart(_)
TrimStart(x) == IF x # <<>> /\ Head(x) = " " THEN TrimStart(Tail(x)) ELSE x

RECURSIVE TrimEnd(_)
TrimEnd(x) == IF x # <<>> /\ x[Len(x)] = " " THEN TrimEnd(SubSeq(x, 1, Len(x) - 1)) ELSE x

Trim(x) == TrimEnd(TrimStart(x))

\* A header: absent, not text (to_str fails), or text.  x-forwarded-for's
\* text is given as its comma-separated entries; split(',') of any text
\* has a first entry.
HdrAbsent == [kind |-> "absent"]
HdrBinary == [kind |-> "binary"]
HdrText(v) == [kind |-> "text", value |-> v]

Unknown == <<"u", "n", "k", "n", "o", "w", "n">>
IpA == <<"A">>
IpB == <<"B">>

\* extract_ip(request).unwrap_or("unknown")
extract_ip(request) ==
    IF request.xff.kind = "text" THEN [some |-> TRUE, ip |-> Trim(request.xff.value[1])]
    ELSE IF request.real_ip.kind = "text" THEN [some |-> TRUE, ip |-> request.real_ip.value]
    ELSE IF request.peer # <<>> THEN [some |-> TRUE, ip |-> request.peer]
    ELSE [some |-> FALSE]

ClientIdentity(request) ==
    LET e == extract_ip(request) IN IF e.some THEN e.ip ELSE Unknown

RateRequest(xff, real_ip, peer) == [xff |-> xff, real_ip |-> real_ip, peer |-> peer]

RateRequests ==
    {RateRequest(HdrText(<<<<" ", "A">>, IpB>>), HdrAbsent, <<>>),
     RateRequest(HdrBinary, HdrText(IpB), <<>>)}

Identities == {ClientIdentity(r) : r \in RateRequests}

RECURSIVE SumOver(_, _)
SumOver(f, S) ==
    IF S = {} THEN 0 ELSE LET x == CHOOSE y \in S : TRUE IN f[x] + SumOver(f, S \ {x})

\* Requests received so far, and those between lookup and check.
TotalStarted == SumOver(admitted, Identities) + SumOver(rejected, Identities)
                    + SumOver(inflight, Identities)
TotalInflight == SumOver(inflight, Identities)

\* A map rebuilt with fresh limiters whenever a new identity is inserted.
get_or_create_limiter_rebuild(ls, ip) ==
    IF ip \in DOMAIN ls THEN ls
    ELSE [k \in DOMAIN ls \cup {ip} |-> NoTat]

\* HashMap::insert in place of entry().or_insert_with(): a new limiter
\* takes the place of the one the map holds.
get_or_create_limiter_insert(ls, ip) ==
    [k \in DOMAIN ls \cup {ip} |-> IF k = ip THEN NoTat ELSE ls[k]]

\* get_or_create_limiter, under the map's mutex.
get_or_create_limiter(ls, ip) ==
    IF ip \in DOMAIN ls THEN ls
    ELSE [k \in DOMAIN ls \cup {ip} |-> IF k = ip THEN NoTat ELSE ls[k]]

\* RateLimitService::call up to the limiter it holds.
Lookup(request) ==
    LET ip == ClientIdentity(request) IN
    /\ TotalStarted < MaxRequests
    /\ TotalInflight < MaxInflight
    /\ limiters' = get_or_create_limiter(limiters, ip)
    /\ inflight' = [inflight EXCEPT ![ip] = @ + 1]
    /\ first' = IF ip \in DOMAIN first THEN first
                ELSE [k \in DOMAIN first \cup {ip} |-> IF k = ip THEN mono ELSE first[k]]
    /\ UNCHANGED <<admitted, rejected, mono, advances>>
    /\ UNCHANGED <<authVars, raceVars, verifyVars>>

\* limiter.check() and the branch on it: forward downstream, or 429.
Check(ip) ==
    /\ inflight[ip] > 0
    /\ LET c == GcraCheck(LayerQuota, limiters[ip], mono) IN
        /\ limiters' = [limiters EXCEPT ![ip] = c.tat]
        /\ admitted' = IF c.ok THEN [admitted EXCEPT ![ip] = @ + 1] ELSE admitted
        /\ rejected' = IF c.ok THEN rejected ELSE [rejected EXCEPT ![ip] = @ + 1]
    /\ inflight' = [inflight EXCEPT ![ip] = @ - 1]
    /\ UNCHANGED <<first, mono, advances>>
    /\ UNCHANGED <<authVars, raceVars, verifyVars>>

AdvanceSteps == {500, 1000}

Advance(d) ==
    /\ advances < MaxAdvances
    /\ mono' = mono + d
    /\ advances' = advances + 1
    /\ UNCHANGED <<limiters, inflight, admitted, rejected, first>>
    /\ UNCHANGED <<authVars, raceVars, verifyVars>>

(***************************************************************************)
(* The handlers as atomic steps: one request served at a time.             *)
(***************************************************************************)
Faults == {"none", "list", "user", "update"}

TickSteps == {1, RefreshTtl}

RefreshHeaders ==
    {HeaderAbsent, HeaderBinary, HeaderText("Basic", Garbage)}
        \cup {HeaderText("Bearer", c) : c \in issued \cup {Garbage}}

InitAuth ==
    /\ now = 0
    /\ ticks = 0
    /\ users = <<>>
    /\ sessions = <<>>
    /\ issued = {}
    /\ rotated = {}
    /\ regpw = <<>>
    /\ resp = [op |-> "none", out |-> OkResponse(0, NoToken, NoToken), replay |-> FALSE]

Calls == {1, 2}

NoRequest == [cred |-> NoToken, sid |-> 0, peers |-> {}, out |-> OkResponse(0, NoToken, NoToken)]

InitRace ==
    /\ rpc = [p \in Calls |-> "idle"]
    /\ rreq = [p \in Calls |-> NoRequest]

InitRate ==
    /\ limiters = <<>>
    /\ inflight = [id \in Identities |-> 0]
    /\ admitted = [id \in Identities |-> 0]
    /\ rejected = [id \in Identities |-> 0]
    /\ first = <<>>
    /\ mono = 0
    /\ advances = 0

NoVerify == [done |-> FALSE]

InitVerify ==
    /\ vin = NoVerify
    /\ vout = NoVerify

Register(email, password, role) ==
    LET input == [email |-> email, password |-> password, role |-> role]
        r == register(users, input)
    IN  /\ r.out.status = 200 => Len(users) < MaxUsers
        /\ users' = r.users
        /\ regpw' = IF r.out.status = 200 THEN Append(regpw, password) ELSE regpw
        /\ resp' = [op |-> "register", out |-> r.out, replay |-> FALSE]
        /\ UNCHANGED <<now, ticks, sessions, issued, rotated>>
        /\ UNCHANGED <<raceVars, rateVars, verifyVars>>

LoginStep(email, password, fault) ==
    LET input == [email |-> email, password |-> password]
        r == login(users, sessions, input, now, fault)
    IN  /\ r.out.status = 200 => Len(sessions) < MaxSessions
        /\ sessions' = r.sessions
        /\ issued' = IF r.out.status = 200 THEN issued \cup {r.out.refresh_token} ELSE issued
        /\ resp' = [op |-> "login", out |-> r.out, replay |-> FALSE]
        /\ UNCHANGED <<now, ticks, users, rotated, regpw>>
        /\ UNCHANGED <<raceVars, rateVars, verifyVars>>

Login(email, password) == LoginStep(email, password, "none")

\* `track` says whether the step records the consumed token in `rotated`.
RefreshStep(header, fault, track) ==
    LET b == ExtractBearer(header)
        m == IF b.ok THEN MatchingSessions(sessions, b.cred, now) ELSE {}
    IN  \E sid \in (IF m = {} THEN {0} ELSE m) :
            LET r == refresh_token(users, sessions, header, now, fault, sid) IN
            /\ sessions' = r.sessions
            /\ issued' = IF r.out.status = 200 THEN issued \cup {r.out.refresh_token}
                         ELSE issued
            /\ rotated' = IF track /\ r.out.status = 200 THEN rotated \cup {b.cred}
                          ELSE rotated
            /\ resp' = [op |-> "refresh", out |-> r.out,
                        replay |-> b.ok /\ b.cred \in rotated]
            /\ UNCHANGED <<now, ticks, users, regpw>>
            /\ UNCHANGED <<raceVars, rateVars, verifyVars>>

Refresh(header, fault) == RefreshStep(header, fault, FALSE)

RefreshTracked(header, fault) == RefreshStep(header, fault, TRUE)

Tick(d) ==
    /\ ticks < MaxTicks
    /\ now' = now + d
    /\ ticks' = ticks + 1
    /\ UNCHANGED <<users, sessions, issued, rotated, regpw, resp>>
    /\ UNCHANGED <<raceVars, rateVars, verifyVars>>

Init == InitAuth /\ InitRace /\ InitRate /\ InitVerify

\* What the clients of the session lifecycle send.
SessionEmails == {EmailA, EmailB}
SessionPasswords == {PwGood}

Next ==
    \/ \E e \in SessionEmails : Register(e, PwGood, "None")
    \/ \E e \in SessionEmails, p \in SessionPasswords : Login(e, p)
    \/ \E h \in RefreshHeaders, f \in Faults : Refresh(h, f)
    \/ \E d \in TickSteps : Tick(d)

Spec == Init /\ [][Next]_vars

(***************************************************************************)
(* The same machine with the history of consumed refresh tokens recorded.  *)
(***************************************************************************)
NextReplay ==
    \/ \E e \in SessionEmails : Register(e, PwGood, "None")
    \/ \E e \in SessionEmails, p \in SessionPasswords : Login(e, p)
    \/ \E h \in RefreshHeaders, f \in Faults : RefreshTracked(h, f)
    \/ \E d \in TickSteps : Tick(d)

SpecReplay == Init /\ [][NextReplay]_vars

(***************************************************************************)
(* Refresh calls served concurrently: each call is a task that awaits the  *)
(* SELECT, then the UPDATE; other tasks run in between.  `peers` records   *)
(* the calls whose execution overlapped this one.                          *)
(***************************************************************************)
RaceHeaders == {HeaderAbsent} \cup {HeaderText("Bearer", c) : c \in issued \cup {Garbage}}

RefreshScan(p, header, fault) ==
    /\ rpc[p] # "read"
    /\ LET s == ScanSessions(sessions, header, now, fault)
           running == {q \in Calls \ {p} : rpc[q] = "read"}
           others(q) == [rreq[q] EXCEPT !.peers = IF q \in running THEN @ \cup {p}
                                                  ELSE @ \ {p}]
       IN  IF ~s.ok
           THEN /\ rpc' = [rpc EXCEPT ![p] = "done"]
                /\ rreq' = [q \in Calls |->
                               IF q = p THEN [NoRequest EXCEPT !.out = ErrResponse(s.err)]
                               ELSE [rreq[q] EXCEPT !.peers = @ \ {p}]]
           ELSE \E sid \in s.found :
                /\ rpc' = [rpc EXCEPT ![p] = "read"]
                /\ rreq' = [q \in Calls |->
                               IF q = p THEN [cred |-> s.cred, sid |-> sid, peers |-> running,
                                              out |-> NoRequest.out]
                               ELSE others(q)]
    /\ UNCHANGED <<authVars, rateVars, verifyVars>>

RefreshRotate(p, fault) ==
    /\ rpc[p] = "read"
    /\ LET r == RotateSession(users, sessions, rreq[p].sid, now, fault) IN
        /\ sessions' = r.sessions
        /\ issued' = IF r.out.status = 200 THEN issued \cup {r.out.refresh_token}
                     ELSE issued
        /\ rpc' = [rpc EXCEPT ![p] = "done"]
        /\ rreq' = [rreq EXCEPT ![p].out = r.out]
    /\ UNCHANGED <<now, ticks, users, rotated, regpw, resp>>
    /\ UNCHANGED <<rateVars, verifyVars>>

NextRace ==
    \/ Register(EmailA, PwGood, "None")
    \/ Login(EmailA, PwGood)
    \/ \E p \in Calls, h \in RaceHeaders, f \in {"none", "list"} : RefreshScan(p, h, f)
    \/ \E p \in Calls, f \in {"none", "user", "update"} : RefreshRotate(p, f)
    \/ \E d \in TickSteps : Tick(d)

SpecRace == Init /\ [][NextRace]_vars

NextRate ==
    \/ \E r \in RateRequests : Lookup(r)
    \/ \E ip \in Identities : Check(ip)
    \/ \E d \in AdvanceSteps : Advance(d)

SpecRate == Init /\ [][NextRate]_vars

(***************************************************************************)
(* verify_token as a function of the token, the verifier's secret and the  *)
(* clock.  The tokens are access tokens of one user row, signed with the   *)
(* server's secret or another, whole or cut short.                         *)
(***************************************************************************)
VerifyUsers ==
    <<[email |-> EmailA, password_hash |-> BcryptHash(BcryptInput(PwGood)), role |-> "User"]>>

\* A token's text cut after `parts` of its three parts, or (parts = 3, cut)
\* within its signature.
Truncate(token, parts, cut) ==
    IF parts < 3 THEN SubSeq(token, 1, parts)
    ELSE IF cut THEN [token EXCEPT ![3].bytes = 16]
    ELSE token

VerifySecrets == {JwtSecret, OtherSecret}
VerifyIssueTimes == {0, 1}
VerifyOffsets == {0, AccessTtl - 1, AccessTtl, AccessTtl + 1, AccessTtl + JwtLeeway,
                  AccessTtl + JwtLeeway + 1}
VerifyShapes == {[parts |-> 3, cut |-> FALSE], [parts |-> 3, cut |-> TRUE],
                 [parts |-> 2, cut |-> FALSE], [parts |-> 1, cut |-> FALSE],
                 [parts |-> 0, cut |-> FALSE]}

\* `made` records how the token came about; verify_token sees only the
\* token, the secret and the clock.
VerifyInput(iat, key, shape, secret, t) ==
    [done |-> TRUE,
     token |-> Truncate(generate_access_token(VerifyUsers, 1, key, iat),
                        shape.parts, shape.cut),
     secret |-> secret,
     now |-> t,
     made |-> [key |-> key, iat |-> iat, exp |-> iat + AccessTtl, shape |-> shape]]

InitVerifyInputs ==
    /\ InitAuth /\ InitRace /\ InitRate
    /\ vin \in {VerifyInput(iat, key, shape, secret, iat + d) :
                    iat \in VerifyIssueTimes, key \in VerifySecrets, shape \in VerifyShapes,
                    secret \in VerifySecrets, d \in VerifyOffsets}
    /\ vout = NoVerify

VerifyCall ==
    /\ ~vout.done
    /\ vout' = [done |-> TRUE, result |-> verify_token(vin.token, vin.secret, vin.now)]
    /\ UNCHANGED vin
    /\ UNCHANGED <<authVars, raceVars, rateVars>>

SpecVerify == InitVerifyInputs /\ [][VerifyCall]_vars

(***************************************************************************)
(* Registration and login alone, over every email, password and role the   *)
(* model knows.                                                            *)
(***************************************************************************)
NextUsers ==
    \/ \E e \in Emails, p \in Passwords, r \in RoleInputs : Register(e, p, r)
    \/ \E e \in Emails, p \in Passwords : Login(e, p)

SpecUsers == Init /\ [][NextUsers]_vars

(***************************************************************************)
(* get_user_from_token (auth.rs) and the two middlewares                   *)
(* (middleware/auth.rs) as functions of the Authorization header, the      *)
(* users table and the clock.                                              *)
(***************************************************************************)
MalformedSub == 0               \* a subject string Uuid::parse_str rejects

ParseUuid(sub) == IF sub = MalformedSub THEN [ok |-> FALSE] ELSE [ok |-> TRUE, id |-> sub]

\* The User row `uid`, as query_as::<_, User> returns it.
UserOf(us, uid) ==
    [id |-> uid, email |-> us[uid].email, password_hash |-> us[uid].password_hash,
     role |-> us[uid].role]

\* A resolver that answers a missing row with a placeholder user.
get_user_from_token_or_guest(token, secret, us, t, fault) ==
    LET v == verify_token(token, secret, t) IN
    IF ~v.ok THEN [ok |-> FALSE, err |-> v.err]
    ELSE LET id == ParseUuid(v.claims.sub) IN
         IF ~id.ok \/ id.id > Len(us)
         THEN [ok |-> TRUE,
               user |-> [id |-> 0, email |-> <<>>, password_hash |-> BcryptHash(<<>>),
                         role |-> "Viewer"]]
         ELSE IF fault = "user"
         THEN [ok |-> FALSE, err |-> AppError("Database", "users")]
         ELSE [ok |-> TRUE, user |-> UserOf(us, id.id)]

\* `fault` is the database call that fails, if any.
get_user_from_token(token, secret, us, t, fault) ==
    LET v == verify_token(token, secret, t) IN
    IF ~v.ok THEN [ok |-> FALSE, err |-> v.err]
    ELSE LET id == ParseUuid(v.claims.sub) IN
         IF ~id.ok
         THEN [ok |-> FALSE, err |-> AppError("Authentication", "Invalid user ID in token")]
         ELSE IF fault = "user"
         THEN [ok |-> FALSE, err |-> AppError("Database", "users")]
         ELSE IF id.id > Len(us)
         THEN [ok |-> FALSE, err |-> AppError("Authentication", "User not found")]
         ELSE [ok |-> TRUE, user |-> UserOf(us, id.id)]

NoContext == <<>>

\* Err(err): the middleware answers itself, next is not run.
Refused(err) == [invoked |-> FALSE, context |-> NoContext, out |-> ErrResponse(err)]

\* next.run(request) with AuthContext { user, claims } in the extensions;
\* the response is the downstream handler's.
Forwarded(user, claims) ==
    [invoked |-> TRUE, context |-> [user |-> user, claims |-> claims],
     out |-> OkResponse(user.id, NoToken, NoToken)]

\* A middleware that lets a request without a usable credential through,
\* with no identity attached.
auth_middleware_lenient(header, us, t, fault) ==
    LET b == ExtractBearer(header) IN
    IF ~b.ok THEN [invoked |-> TRUE, context |-> NoContext,
                   out |-> OkResponse(0, NoToken, NoToken)]
    ELSE LET u == get_user_from_token(b.cred, JwtSecret, us, t, fault) IN
         IF ~u.ok THEN Refused(u.err)
         ELSE LET c == verify_token(b.cred, JwtSecret, t) IN
              IF ~c.ok THEN Refused(c.err) ELSE Forwarded(u.user, c.claims)

auth_middleware(header, us, t, fault) ==
    LET b == ExtractBearer(header) IN
    IF ~b.ok THEN Refused(b.err)
    ELSE LET u == get_user_from_token(b.cred, JwtSecret, us, t, fault) IN
         IF ~u.ok THEN Refused(u.err)
         ELSE LET c == verify_token(b.cred, JwtSecret, t) IN
              IF ~c.ok THEN Refused(c.err) ELSE Forwarded(u.user, c.claims)

\* An admin middleware without the comparison of the role.
admin_auth_middleware_any_role(header, us, t, fault) == auth_middleware(header, us, t, fault)

\* An admin middleware that trusts the role written in the token.
admin_auth_middleware_token_role(header, us, t, fault) ==
    LET b == ExtractBearer(header) IN
    IF ~b.ok THEN Refused(b.err)
    ELSE LET u == get_user_from_token(b.cred, JwtSecret, us, t, fault) IN
         IF ~u.ok THEN Refused(u.err)
         ELSE LET c == verify_token(b.cred, JwtSecret, t) IN
              IF ~c.ok THEN Refused(c.err)
              ELSE IF c.claims.role # "Admin"
              THEN Refused(AppError("Authorization", "Admin access required"))
              ELSE Forwarded(u.user, c.claims)

admin_auth_middleware(header, us, t, fault) ==
    LET b == ExtractBearer(header) IN
    IF ~b.ok THEN Refused(b.err)
    ELSE LET u == get_user_from_token(b.cred, JwtSecret, us, t, fault) IN
         IF ~u.ok THEN Refused(u.err)
         ELSE LET c == verify_token(b.cred, JwtSecret, t) IN
              IF ~c.ok THEN Refused(c.err)
              ELSE IF u.user.role # "Admin"
              THEN Refused(AppError("Authorization", "Admin access required"))
              ELSE Forwarded(u.user, c.claims)

(***************************************************************************)
(* The three as functions of their inputs.  The tokens are minted for the  *)
(* rows of IdentityUsers (or for a malformed subject), as access or as     *)
(* refresh tokens; the table that is read may have lost its last rows      *)
(* since.                                                                  *)
(***************************************************************************)
IdentityUsers ==
    <<[email |-> EmailA, password_hash |-> BcryptHash(BcryptInput(PwGood)), role |-> "Admin"],
      [email |-> EmailB, password_hash |-> BcryptHash(BcryptInput(PwGood)), role |-> "User"],
      [email |-> <<"c", "@", "x">>, password_hash |-> BcryptHash(BcryptInput(PwOther)),
       role |-> "Viewer"]>>

\* The table after the role of row i was changed (by the owner of the
\* store: no handler of the gateway writes the role of an existing row).
WithRole(us, i, role) == [us EXCEPT ![i].role = role]

IdentityTables ==
    {SubSeq(IdentityUsers, 1, n) : n \in 0..Len(IdentityUsers)}
        \cup {WithRole(IdentityUsers, 1, "User"), WithRole(IdentityUsers, 2, "Admin")}

IdentitySubjects == (1..Len(IdentityUsers)) \cup {MalformedSub}

\* The token generate_access_token / generate_refresh_token mints at time 0
\* under `key`, with the subject replaced when it is to be malformed.
IdentityToken(kind, sub, key) ==
    LET uid == IF sub = MalformedSub THEN 1 ELSE sub
        ttl == IF kind = "refresh" THEN RefreshTtl ELSE AccessTtl
        claims == [MakeClaims(IdentityUsers, uid, 0, ttl) EXCEPT !.sub = sub]
    IN  Encode(claims, key)

IdentityKinds == {"access", "refresh"}
IdentityShapes == {[parts |-> 3, cut |-> FALSE], [parts |-> 2, cut |-> FALSE]}
IdentityTimes == {0, AccessTtl + JwtLeeway + 1, RefreshTtl + JwtLeeway + 1}
IdentityFaults == {"none", "user"}

IdentityHeaders(token) ==
    {HeaderAbsent, HeaderBinary, HeaderText("Basic", token), HeaderText("Bearer", token)}

IdentityInput(kind, sub, key, shape, header, us, t, fault) ==
    [done |-> TRUE,
     token |-> Truncate(IdentityToken(kind, sub, key), shape.parts, shape.cut),
     header |-> header, users |-> us, now |-> t, fault |-> fault,
     made |-> [kind |-> kind, sub |-> sub, key |-> key, shape |-> shape]]

InitIdentity ==
    /\ InitAuth /\ InitRace /\ InitRate
    /\ vin \in UNION {{IdentityInput(kind, sub, key, shape, header, us, t, fault) :
                          header \in IdentityHeaders(Truncate(IdentityToken(kind, sub, key),
                                                              shape.parts, shape.cut)),
                          us \in IdentityTables, t \in IdentityTimes,
                          fault \in IdentityFaults} :
                       kind \in IdentityKinds, sub \in IdentitySubjects,
                       key \in VerifySecrets, shape \in IdentityShapes}
    /\ vout = NoVerify

ResolveCall ==
    /\ ~vout.done
    /\ vout' = [done |-> TRUE, op |-> "resolve",
                result |-> get_user_from_token(vin.token, JwtSecret, vin.users, vin.now,
                                               vin.fault)]
    /\ UNCHANGED vin
    /\ UNCHANGED <<authVars, raceVars, rateVars>>

AuthMiddlewareCall ==
    /\ ~vout.done
    /\ vout' = [done |-> TRUE, op |-> "auth",
                result |-> auth_middleware(vin.header, vin.users, vin.now, vin.fault)]
    /\ UNCHANGED vin
    /\ UNCHANGED <<authVars, raceVars, rateVars>>

AdminMiddlewareCall ==
    /\ ~vout.done
    /\ vout' = [done |-> TRUE, op |-> "admin",
                result |-> admin_auth_middleware(vin.header, vin.users, vin.now, vin.fault)]
    /\ UNCHANGED vin
    /\ UNCHANGED <<authVars, raceVars, rateVars>>

NextIdentity == ResolveCall \/ AuthMiddlewareCall \/ AdminMiddlewareCall

SpecIdentity == InitIdentity /\ [][NextIdentity]_vars

(***************************************************************************)
(* The JSON bodies of the 200 responses.  register builds its body field   *)
(* by field; login and refresh_token return Json(AuthResponse), whose      *)
(* `user` is the User row under its derived Serialize: every field of the  *)
(* struct (#[graphql(skip)] concerns the GraphQL object only).             *)
(***************************************************************************)
SerializeUser(user) ==
    [id |-> user.id, email |-> user.email, password_hash |-> user.password_hash,
     role |-> user.role]

RegisterBody(us, out) ==
    [message |-> "User registered successfully",
     user |-> [id |-> out.uid, email |-> us[out.uid].email, role |-> us[out.uid].role]]

AuthResponseBody(us, out) ==
    [access_token |-> out.access_token, refresh_token |-> out.refresh_token,
     user |-> SerializeUser(UserOf(us, out.uid)),
     expires_at |-> out.access_token[2].exp]

ResponseBody(op, us, out) ==
    IF op = "register" THEN RegisterBody(us, out) ELSE AuthResponseBody(us, out)

(***************************************************************************)
(* The router of create_app (main.rs): six routes behind one stack of      *)
(* layers whose innermost is the RateLimitLayer.  No route carries         *)
(* auth_middleware or admin_auth_middleware.  A request is served in one   *)
(* step: RateLimitService::call, and inside it the handler of the route.   *)
(***************************************************************************)
Routes == {"/health", "/graphql", "/auth/login", "/auth/register", "/auth/refresh", "/ws"}

\* health_check: 200 with the service's status.
health_check == OkResponse(0, NoToken, NoToken)

\* graphql_handler: executes the query and answers Ok(GraphQLResponse),
\* whatever the Authorization header of the request.
graphql_handler(header) == OkResponse(0, NoToken, NoToken)

\* websocket_handler on an upgrade request: 101 Switching Protocols.
websocket_handler == [OkResponse(0, NoToken, NoToken) EXCEPT !.status = 101]

\* A request: the connection's client headers, the Authorization header
\* and the JSON body.
RouterRequest(conn, header, body) == [conn |-> conn, authorization |-> header, body |-> body]

\* The handler create_app routes `route` to.  `sid` is where the scan of
\* refresh_token stops.
Dispatch(route, req, us, ss, t, sid) ==
    CASE route = "/health" -> [users |-> us, sessions |-> ss, out |-> health_check]
      [] route = "/graphql" ->
            [users |-> us, sessions |-> ss, out |-> graphql_handler(req.authorization)]
      [] route = "/auth/login" ->
            LET r == login(us, ss, [email |-> req.body.email,
                                    password |-> req.body.password], t, "none")
            IN  [users |-> us, sessions |-> r.sessions, out |-> r.out]
      [] route = "/auth/register" ->
            LET r == register(us, req.body)
            IN  [users |-> r.users, sessions |-> ss, out |-> r.out]
      [] route = "/auth/refresh" ->
            LET r == refresh_token(us, ss, req.authorization, t, "none", sid)
            IN  [users |-> us, sessions |-> r.sessions, out |-> r.out]
      [] route = "/ws" -> [users |-> us, sessions |-> ss, out |-> websocket_handler]

RateLimitCallHandlerFirst(route, req, ls, us, ss, t, m, sid) ==
    LET ip == ClientIdentity(req.conn)
        ls1 == get_or_create_limiter(ls, ip)
        c == GcraCheck(LayerQuota, ls1[ip], m)
        d == Dispatch(route, req, us, ss, t, sid)
    IN  [limiters |-> [ls1 EXCEPT ![ip] = c.tat], ip |-> ip, admitted |-> c.ok,
         handled |-> c.ok, users |-> d.users, sessions |-> d.sessions,
         out |-> IF c.ok THEN d.out ELSE ErrResponse(AppError("RateLimited", ""))]

\* RateLimitService::call: the client's limiter is checked, and only on
\* Ok is the request passed to the router; otherwise the answer is
\* AppError::RateLimited.into_response().
RateLimitCall(route, req, ls, us, ss, t, m, sid) ==
    LET ip == ClientIdentity(req.conn)
        ls1 == get_or_create_limiter(ls, ip)
        c == GcraCheck(LayerQuota, ls1[ip], m)
        ls2 == [ls1 EXCEPT ![ip] = c.tat]
    IN  IF c.ok
        THEN LET d == Dispatch(route, req, us, ss, t, sid)
             IN  [limiters |-> ls2, ip |-> ip, admitted |-> TRUE, handled |-> TRUE,
                  users |-> d.users, sessions |-> d.sessions, out |-> d.out]
        ELSE [limiters |-> ls2, ip |-> ip, admitted |-> FALSE, handled |-> FALSE,
              users |-> us, sessions |-> ss,
              out |-> ErrResponse(AppError("RateLimited", ""))]

\* The access token login or refresh_token issued together with the
\* refresh token `c`.
AccessTokenOf(c) == Encode([c[2] EXCEPT !.exp = c[2].iat + AccessTtl], JwtSecret)

\* What the client of the router sends.
RouterConn == RateRequest(HdrText(<<IpA>>), HdrAbsent, <<>>)
RouterBody == [email |-> EmailA, password |-> PwGood, role |-> "None"]
RouterHeaders ==
    {HeaderAbsent} \cup {HeaderText("Bearer", c) : c \in issued}
                   \cup {HeaderText("Bearer", AccessTokenOf(c)) : c \in issued}

\* One request served by the application.
Serve(route, header) ==
    LET req == RouterRequest(RouterConn, header, RouterBody)
        b == ExtractBearer(header)
        found == IF b.ok THEN MatchingSessions(sessions, b.cred, now) ELSE {}
    IN  \E sid \in (IF found = {} THEN {0} ELSE found) :
        \E r \in {RateLimitCall(route, req, limiters, users, sessions, now, mono, sid)} :
            /\ TotalStarted < MaxServed
            /\ Len(r.users) <= MaxUsers
            /\ Len(r.sessions) <= MaxSessions
            /\ limiters' = r.limiters
            /\ first' = IF r.ip \in DOMAIN first THEN first
                        ELSE [k \in DOMAIN first \cup {r.ip} |->
                                 IF k = r.ip THEN mono ELSE first[k]]
            /\ admitted' = IF r.admitted THEN [admitted EXCEPT ![r.ip] = @ + 1]
                           ELSE admitted
            /\ rejected' = IF r.admitted THEN rejected
                           ELSE [rejected EXCEPT ![r.ip] = @ + 1]
            /\ users' = r.users
            /\ sessions' = r.sessions
            /\ regpw' = IF Len(r.users) > Len(users) THEN Append(regpw, req.body.password)
                        ELSE regpw
            /\ issued' = IF r.out.refresh_token # NoToken
                         THEN issued \cup {r.out.refresh_token} ELSE issued
            /\ resp' = [op |-> route, out |-> r.out, replay |-> FALSE,
                        handled |-> r.handled]
            /\ UNCHANGED <<now, ticks, rotated, inflight, mono, advances>>
            /\ UNCHANGED <<raceVars, verifyVars>>

\* Time passes: d seconds on the wall clock the tokens are dated by and on
\* the monotonic clock (in milliseconds) of the limiters.
ElapseSteps == {AccessTtl + JwtLeeway + 1}

Elapse(d) ==
    /\ ticks < MaxTicks
    /\ now' = now + d
    /\ mono' = mono + 1000 * d
    /\ ticks' = ticks + 1
    /\ UNCHANGED <<users, sessions, issued, rotated, regpw, resp>>
    /\ UNCHANGED <<limiters, inflight, admitted, rejected, first, advances>>
    /\ UNCHANGED <<raceVars, verifyVars>>

\* Only /auth/refresh reads the Authorization header; a client also sends
\* it to /graphql, the route of the application's data.
NextRouter ==
    \/ \E route \in Routes : Serve(route, HeaderAbsent)
    \/ \E route \in {"/graphql", "/auth/refresh"}, h \in RouterHeaders : Serve(route, h)
    \/ \E d \in AdvanceSteps : Advance(d)

SpecRouter == Init /\ [][NextRouter]_vars

\* The same clients over a day: the scenario of a token pair that outlives
\* its access token.
NextScenario ==
    \/ \E route \in Routes : Serve(route, HeaderAbsent)
    \/ \E route \in {"/graphql", "/auth/refresh"}, h \in RouterHeaders : Serve(route, h)
    \/ \E d \in ElapseSteps : Elapse(d)

SpecScenario == Init /\ [][NextScenario]_vars

(***************************************************************************)
(* The client identity of a connection.  main serves the router with       *)
(* axum::serve(listener, app): the make-service carries no connect info,   *)
(* so no request has the ConnectInfo<SocketAddr> extension extract_ip      *)
(* reads last.                                                             *)
(***************************************************************************)
NoConnectInfo == <<>>

\* The ConnectInfo extension of a request accepted from peer address `addr`.
ConnectInfoOf(addr) == NoConnectInfo

\* The request the layer sees for a connection from `addr` with these headers.
Accept(addr, xff, real_ip) == RateRequest(xff, real_ip, ConnectInfoOf(addr))

IpC == <<"C">>
PeerAddrs == {IpA, IpB, IpC}
\* Text that is no IP address.
NotAnAddress == <<"?">>
ForwardedHeaders ==
    {HdrAbsent, HdrBinary, HdrText(<<IpA>>), HdrText(<<<<" ", "A">>, IpB>>),
     HdrText(<<IpB, IpA>>), HdrText(<<<<>>>>), HdrText(<<NotAnAddress, IpA>>)}
RealIpHeaders ==
    {HdrAbsent, HdrBinary, HdrText(IpA), HdrText(IpB), HdrText(<<" ", "B">>)}

InitClientIp ==
    /\ InitAuth /\ InitRace /\ InitRate
    /\ vin \in {[done |-> TRUE, addr |-> a, xff |-> x, real_ip |-> r] :
                    a \in PeerAddrs, x \in ForwardedHeaders, r \in RealIpHeaders}
    /\ vout = NoVerify

\* RateLimitService::call up to the identity it keys the limiter by.
IdentifyCall ==
    /\ vin.done /\ ~vout.done
    /\ vout' = [done |-> TRUE, op |-> "identify",
                result |-> ClientIdentity(Accept(vin.addr, vin.xff, vin.real_ip))]
    /\ UNCHANGED <<vin, authVars, raceVars, rateVars>>

SpecClientIp == InitClientIp /\ [][IdentifyCall]_vars

(***************************************************************************)
(* AppError::into_response over every variant of the enum and several      *)
(* payloads (the underlying error's text, or the message the handler       *)
(* gave).                                                                  *)
(***************************************************************************)
ErrorKinds ==
    {"Database", "Authentication", "Authorization", "Validation", "NotFound", "Conflict",
     "RateLimited", "Internal", "BadRequest", "ServiceUnavailable", "Jwt", "Redis",
     "HttpClient", "Serialization", "Config"}

ErrorDetails ==
    {"Invalid credentials", "User already exists", "pool timed out",
     "Failed to hash password: cost", "relation user_sessions does not exist"}

\* RateLimited is a unit variant: it has no payload.
ErrorInputs ==
    {AppError(k, d) : k \in ErrorKinds \ {"RateLimited"}, d \in ErrorDetails}
        \cup {AppError("RateLimited", "")}

InitErrors ==
    /\ InitAuth /\ InitRace /\ InitRate
    /\ vin \in {[done |-> TRUE, err |-> e] : e \in ErrorInputs}
    /\ vout = NoVerify

IntoResponseCall ==
    /\ vin.done /\ ~vout.done
    /\ vout' = [done |-> TRUE, op |-> "respond", result |-> ErrResponse(vin.err)]
    /\ UNCHANGED <<vin, authVars, raceVars, rateVars>>

SpecErrors == InitErrors /\ [][IntoResponseCall]_vars

(***************************************************************************)
(* Config::load and Config::validate (config.rs).  A string is a sequence  *)
(* of characters; String::len() is its length in bytes of UTF-8.           *)
(***************************************************************************)
MinSecretBytes == 32
DefaultPort == 8080
DefaultJwtSecretLen == 53

\* The bytes of one character in UTF-8; "e'" stands for the two-byte
\* character e with acute accent.
Utf8Width(c) == IF c = "e'" THEN 2 ELSE 1

RECURSIVE Utf8Len(_)
Utf8Len(str) == IF str = <<>> THEN 0 ELSE Utf8Width(Head(str)) + Utf8Len(Tail(str))

EnvAbsent == [set |-> FALSE]
EnvVar(v) == [set |-> TRUE, value |-> v]

\* env::var(name).unwrap_or_else(|_| default)
EnvOr(var, default) == IF var.set THEN var.value ELSE default

\* .parse().unwrap_or(default) of a port: "0" and "8080" are numbers.
ParsePort(text) ==
    CASE text = "0" -> 0
      [] text = "8080" -> 8080
      [] OTHER -> DefaultPort

\* Config::validate, up to the database URL.
validate(config) ==
    IF Utf8Len(config.jwt_secret) < MinSecretBytes
    THEN [ok |-> FALSE, err |-> "JWT secret must be at least 32 characters long"]
    ELSE IF config.port = 0
    THEN [ok |-> FALSE, err |-> "Port must be greater than 0"]
    ELSE IF config.database_url = ""
    THEN [ok |-> FALSE, err |-> "Database URL cannot be empty"]
    ELSE [ok |-> TRUE]

\* Config::load: the environment with its defaults, then validate()?.
load(environment) ==
    LET config == [port |-> ParsePort(EnvOr(environment.PORT, "8080")),
                   database_url |-> EnvOr(environment.DATABASE_URL, "postgresql://"),
                   jwt_secret |-> EnvOr(environment.JWT_SECRET,
                                        Pad(DefaultJwtSecretLen, "k"))]
        v == validate(config)
    IN  IF v.ok THEN [ok |-> TRUE, config |-> config] ELSE [ok |-> FALSE, err |-> v.err]

SecretLengths == {0, 16, 31, 32, 33}
EnvSecrets ==
    {EnvAbsent} \cup {EnvVar(Pad(n, c)) : n \in SecretLengths, c \in {"a", "e'"}}
EnvPorts == {EnvAbsent, EnvVar("0"), EnvVar("8080"), EnvVar("http")}
EnvDatabaseUrls == {EnvAbsent, EnvVar(""), EnvVar("postgresql://db")}

InitConfig ==
    /\ InitAuth /\ InitRace /\ InitRate
    /\ vin \in {[done |-> TRUE,
                  environment |-> [JWT_SECRET |-> s, PORT |-> p, DATABASE_URL |-> u]] :
                    s \in EnvSecrets, p \in EnvPorts, u \in EnvDatabaseUrls}
    /\ vout = NoVerify

\* main: Config::load().await? -- on Err the process exits before serving.
LoadCall ==
    /\ vin.done /\ ~vout.done
    /\ vout' = [done |-> TRUE, op |-> "load", result |-> load(vin.environment)]
    /\ UNCHANGED <<vin, authVars, raceVars, rateVars>>

SpecConfig == InitConfig /\ [][LoadCall]_vars

(***************************************************************************)
(* The session lifecycle with every database call of login able to fail    *)
(* and with calls abandoned: when the client disconnects, the handler's    *)
(* future is dropped at the await it is suspended at, and the client gets  *)
(* no response.  A statement already sent to the database when the future  *)
(* is dropped may or may not take effect.                                  *)
(***************************************************************************)
LoginFaults == {"none", "user", "insert"}

\* The caller of an abandoned call receives nothing.
NoResponse ==
    [status |-> 0, kind |-> "Abandoned", code |-> "", message |-> "", uid |-> 0,
     access_token |-> NoToken, refresh_token |-> NoToken]

AbandonPoints == {"read", "write"}

\* login dropped at the SELECT of the user ("read") or at the INSERT of the
\* session row ("write").
LoginAbandoned(email, password, point) ==
    LET input == [email |-> email, password |-> password]
        r == login(users, sessions, input, now, "none")
    IN  /\ ValidateLogin(input)
        /\ point = "write" => (r.out.status = 200 /\ Len(sessions) < MaxSessions)
        /\ sessions' \in (IF point = "write" THEN {sessions, r.sessions} ELSE {sessions})
        /\ resp' = [op |-> "login", out |-> NoResponse, replay |-> FALSE]
        /\ UNCHANGED <<now, ticks, users, issued, rotated, regpw>>
        /\ UNCHANGED <<raceVars, rateVars, verifyVars>>

\* refresh_token dropped at the SELECT of the sessions ("read") or at the
\* UPDATE of the session row ("write").
RefreshAbandoned(header, point) ==
    LET b == ExtractBearer(header)
        found == IF b.ok THEN MatchingSessions(sessions, b.cred, now) ELSE {}
    IN  /\ b.ok
        /\ point = "write" => found # {}
        /\ \E sid \in (IF found = {} THEN {0} ELSE found) :
              sessions' \in (IF point = "write"
                             THEN {sessions,
                                   refresh_token(users, sessions, header, now, "none", sid).sessions}
                             ELSE {sessions})
        /\ resp' = [op |-> "refresh", out |-> NoResponse, replay |-> FALSE]
        /\ UNCHANGED <<now, ticks, users, issued, rotated, regpw>>
        /\ UNCHANGED <<raceVars, rateVars, verifyVars>>

WritePasswords == {PwGood}
RotationFaults == {"none", "update"}
WriteHeaders == {HeaderAbsent} \cup {HeaderText("Bearer", c) : c \in issued}

NextWrites ==
    \/ \E e \in SessionEmails : Register(e, PwGood, "None")
    \/ \E e \in SessionEmails, p \in WritePasswords, f \in LoginFaults : LoginStep(e, p, f)
    \/ \E e \in SessionEmails, point \in AbandonPoints : LoginAbandoned(e, PwGood, point)
    \/ \E h \in WriteHeaders, f \in RotationFaults : Refresh(h, f)
    \/ \E h \in WriteHeaders, point \in AbandonPoints : RefreshAbandoned(h, point)
    \/ Tick(1)

SpecWrites == Init /\ [][NextWrites]_vars

(***************************************************************************)
(* Every operation of the Authority on one users table: the three handlers *)
(* and, on the credentials they handed out, verify_token,                  *)
(* get_user_from_token and the two middlewares.                            *)
(***************************************************************************)
GateKinds == {"verify", "resolve", "auth", "admin"}

\* The response the caller of the operation sees.
GateOut(kind, header, us, t) ==
    LET b == ExtractBearer(header) IN
    CASE kind = "verify" ->
            IF ~b.ok THEN ErrResponse(b.err)
            ELSE LET v == verify_token(b.cred, JwtSecret, t) IN
                 IF v.ok THEN OkResponse(v.claims.sub, NoToken, NoToken)
                 ELSE ErrResponse(v.err)
      [] kind = "resolve" ->
            IF ~b.ok THEN ErrResponse(b.err)
            ELSE LET u == get_user_from_token(b.cred, JwtSecret, us, t, "none") IN
                 IF u.ok THEN OkResponse(u.user.id, NoToken, NoToken)
                 ELSE ErrResponse(u.err)
      [] kind = "auth" -> auth_middleware(header, us, t, "none").out
      [] kind = "admin" -> admin_auth_middleware(header, us, t, "none").out

Gate(kind, header) ==
    /\ resp' = [op |-> kind, out |-> GateOut(kind, header, users, now), replay |-> FALSE]
    /\ UNCHANGED <<now, ticks, users, sessions, issued, rotated, regpw>>
    /\ UNCHANGED <<raceVars, rateVars, verifyVars>>

NextStore ==
    \/ \E e \in SessionEmails, r \in RoleInputs : Register(e, PwGood, r)
    \/ \E e \in SessionEmails, f \in LoginFaults : LoginStep(e, PwGood, f)
    \/ \E h \in RouterHeaders, f \in RotationFaults : Refresh(h, f)
    \/ \E k \in GateKinds, h \in RouterHeaders : Gate(k, h)

SpecStore == Init /\ [][NextStore]_vars

(***************************************************************************)
(* Register calls served concurrently: each call is a task that awaits the *)
(* SELECT by email, then the INSERT; other tasks run in between.  The      *)
(* users table is the store's: its email column is unique, and an INSERT   *)
(* of a taken email is refused by the store.                               *)
(***************************************************************************)
\* The unique key of the users table.
UniqueViolation(us, email) == \E i \in 1..Len(us) : us[i].email = email

\* register up to the existence check.
register_check(us, input) ==
    IF ~ValidateCreateUser(input)
    THEN [ok |-> FALSE, err |-> AppError("Validation", "invalid input")]
    ELSE IF EmailTaken(us, input.email)
    THEN [ok |-> FALSE, err |-> AppError("Conflict", "User already exists")]
    ELSE [ok |-> TRUE]

\* An INSERT whose error is dropped.
register_insert_unchecked(us, input) ==
    LET row == [email |-> input.email,
                password_hash |-> BcryptHash(BcryptInput(input.password)),
                role |-> IF input.role = "None" THEN "User" ELSE input.role]
    IN  IF UniqueViolation(us, input.email)
        THEN [users |-> us, out |-> OkResponse(Len(us), NoToken, NoToken)]
        ELSE [users |-> Append(us, row), out |-> OkResponse(Len(us) + 1, NoToken, NoToken)]

\* register from the hashing of the password: the INSERT, whose error `?`
\* returns as AppError::Database, and the response.
register_insert(us, input) ==
    LET row == [email |-> input.email,
                password_hash |-> BcryptHash(BcryptInput(input.password)),
                role |-> IF input.role = "None" THEN "User" ELSE input.role]
    IN  IF UniqueViolation(us, input.email)
        THEN [users |-> us, out |-> ErrResponse(AppError("Database", "users_email_key"))]
        ELSE [users |-> Append(us, row), out |-> OkResponse(Len(us) + 1, NoToken, NoToken)]

NoRegistration == [input |-> [email |-> <<>>, password |-> <<>>, role |-> "None"],
                   out |-> NoResponse, seen |-> 0]

InitRegisterRace ==
    /\ InitAuth /\ InitRate /\ InitVerify
    /\ rpc = [p \in Calls |-> "idle"]
    /\ rreq = [p \in Calls |-> NoRegistration]

\* `seen` is the number of user rows when the existence check ran.
RegisterCheck(p, email, password) ==
    /\ rpc[p] # "checked"
    /\ LET input == [email |-> email, password |-> password, role |-> "None"]
           c == register_check(users, input)
       IN  IF c.ok
           THEN /\ rpc' = [rpc EXCEPT ![p] = "checked"]
                /\ rreq' = [rreq EXCEPT ![p] = [input |-> input, out |-> NoResponse,
                                                seen |-> Len(users)]]
           ELSE /\ rpc' = [rpc EXCEPT ![p] = "done"]
                /\ rreq' = [rreq EXCEPT ![p] = [input |-> input, out |-> ErrResponse(c.err),
                                                seen |-> Len(users)]]
    /\ UNCHANGED <<authVars, rateVars, verifyVars>>

RegisterInsert(p) ==
    /\ rpc[p] = "checked"
    /\ LET r == register_insert(users, rreq[p].input) IN
        /\ users' = r.users
        /\ regpw' = IF Len(r.users) > Len(users) THEN Append(regpw, rreq[p].input.password)
                    ELSE regpw
        /\ rpc' = [rpc EXCEPT ![p] = "done"]
        /\ rreq' = [rreq EXCEPT ![p].out = r.out]
    /\ UNCHANGED <<now, ticks, sessions, issued, rotated, resp>>
    /\ UNCHANGED <<rateVars, verifyVars>>

NextRegisterRace ==
    \/ \E p \in Calls, e \in Emails, pw \in {PwGood, PwOther} : RegisterCheck(p, e, pw)
    \/ \E p \in Calls : RegisterInsert(p)

SpecRegisterRace == InitRegisterRace /\ [][NextRegisterRace]_vars

(***************************************************************************)
(* RateLimitService::call as the task it is: several requests are in the   *)
(* middleware at once.  A call is inside get_or_create_limiter ("lookup",  *)
(* holding the MutexGuard of the map), then holds its limiter ("holding"), *)
(* then, if the check admits it, awaits the inner service ("downstream").  *)
(***************************************************************************)
MaxAdmissions == 62
MaxOther == 1

NoCall == [request |-> RateRequest(HdrAbsent, HdrAbsent, <<>>), ip |-> <<>>,
           guard |-> FALSE, calls |-> 0, forwarded |-> <<>>, status |-> 0]

\* The client that sends enough requests to use up its burst.
HeavyClient == RateRequest(HdrText(<<<<" ", "A">>, IpB>>), HdrAbsent, <<>>)

InitAdmission ==
    /\ InitAuth /\ InitRate /\ InitVerify
    /\ rpc = [p \in Calls |-> "idle"]
    /\ rreq = [p \in Calls |-> NoCall]

\* A guard that outlives get_or_create_limiter.
GuardKeptByCall == FALSE

\* The guard `limiters` of get_or_create_limiter is a local: it is dropped
\* when the function returns the clone of the Arc.
GuardDroppedAtReturn == TRUE

\* A branch that passes the request on whatever the check says.
BranchAlwaysForward(ok, request) ==
    [next |-> "downstream", calls |-> 1, forwarded |-> request, status |-> 0]

\* The branch on limiter.check() in call: Ok passes the request to the
\* inner service once; Err answers AppError::RateLimited.
Branch(ok, request) ==
    IF ok THEN [next |-> "downstream", calls |-> 1, forwarded |-> request, status |-> 0]
    ELSE [next |-> "idle", calls |-> 0, forwarded |-> <<>>,
          status |-> StatusOf(AppError("RateLimited", ""))]

\* call enters get_or_create_limiter: lock().unwrap() returns once no other
\* task holds the guard, and entry(ip).or_insert_with runs under it.
EnterLookup(p, request) ==
    LET ip == ClientIdentity(request) IN
    /\ rpc[p] = "idle"
    /\ \A q \in Calls : ~rreq[q].guard
    /\ TotalStarted < MaxAdmissions
    /\ ip # ClientIdentity(HeavyClient)
          => admitted[ip] + rejected[ip] + inflight[ip] < MaxOther
    /\ limiters' = get_or_create_limiter(limiters, ip)
    /\ inflight' = [inflight EXCEPT ![ip] = @ + 1]
    /\ first' = IF ip \in DOMAIN first THEN first
                ELSE [k \in DOMAIN first \cup {ip} |-> IF k = ip THEN mono ELSE first[k]]
    /\ rpc' = [rpc EXCEPT ![p] = "lookup"]
    /\ rreq' = [rreq EXCEPT ![p] = [NoCall EXCEPT !.request = request, !.ip = ip,
                                                  !.guard = TRUE]]
    /\ UNCHANGED <<admitted, rejected, mono, advances>>
    /\ UNCHANGED <<authVars, verifyVars>>

\* get_or_create_limiter returns.
ReturnLimiter(p) ==
    /\ rpc[p] = "lookup"
    /\ rpc' = [rpc EXCEPT ![p] = "holding"]
    /\ rreq' = [rreq EXCEPT ![p].guard = ~GuardDroppedAtReturn]
    /\ UNCHANGED <<rateVars, authVars, verifyVars>>

\* limiter.check() and the branch on it.
CheckCall(p) ==
    /\ rpc[p] = "holding"
    /\ LET ip == rreq[p].ip
           c == GcraCheck(LayerQuota, limiters[ip], mono)
           b == Branch(c.ok, rreq[p].request)
       IN  /\ limiters' = [limiters EXCEPT ![ip] = c.tat]
           /\ admitted' = IF c.ok THEN [admitted EXCEPT ![ip] = @ + 1] ELSE admitted
           /\ rejected' = IF c.ok THEN rejected ELSE [rejected EXCEPT ![ip] = @ + 1]
           /\ inflight' = [inflight EXCEPT ![ip] = @ - 1]
           /\ rpc' = [rpc EXCEPT ![p] = b.next]
           /\ rreq' = [rreq EXCEPT ![p].calls = b.calls, ![p].forwarded = b.forwarded,
                                   ![p].status = b.status,
                                   ![p].guard = IF b.next = "idle" THEN FALSE ELSE @]
    /\ UNCHANGED <<first, mono, advances>>
    /\ UNCHANGED <<authVars, verifyVars>>

\* The inner service answers; its answer is the call's.
Downstream(p) ==
    /\ rpc[p] = "downstream"
    /\ rpc' = [rpc EXCEPT ![p] = "idle"]
    /\ rreq' = [rreq EXCEPT ![p].status = 200, ![p].guard = FALSE]
    /\ UNCHANGED <<rateVars, authVars, verifyVars>>

\* Time passes on the limiters' clock: one replenishment interval.
PassSteps == {LayerQuota.replenish_1_per}

Pass(d) ==
    /\ advances < MaxAdvances
    /\ mono' = mono + d
    /\ advances' = advances + 1
    /\ UNCHANGED <<limiters, inflight, admitted, rejected, first>>
    /\ UNCHANGED <<authVars, raceVars, verifyVars>>

NextAdmission ==
    \/ \E p \in Calls, r \in RateRequests : EnterLookup(p, r)
    \/ \E p \in Calls : ReturnLimiter(p)
    \/ \E p \in Calls : CheckCall(p)
    \/ \E p \in Calls : Downstream(p)
    \/ \E d \in PassSteps : Pass(d)

SpecAdmission == InitAdmission /\ [][NextAdmission]_vars

(***************************************************************************)
(* The lifetime of access tokens: what the configuration holds and what    *)
(* login and refresh_token mint.                                           *)
(***************************************************************************)
\* .parse().unwrap_or(24) of JWT_EXPIRY_HOURS.
ParseHours(text) ==
    CASE text = "1" -> 1
      [] text = "24" -> 24
      [] text = "48" -> 48
      [] OTHER -> 24

\* Config::load: auth.jwt_expiry_hours.
load_auth(environment) ==
    [jwt_expiry_hours |-> ParseHours(EnvOr(environment.JWT_EXPIRY_HOURS, "24"))]

\* The expires_at generate_access_token returns beside the token.
access_expires_at(t) == t + AccessTtl

EnvExpiryHours == {EnvAbsent, EnvVar("1"), EnvVar("24"), EnvVar("48"), EnvVar("soon")}
MintTimes == {0, 3600, 86400}
MintDelays == {0, 60}
MintOps == {"login", "refresh"}

InitLifetime ==
    /\ InitAuth /\ InitRace /\ InitRate
    /\ vin \in {[done |-> TRUE, environment |-> [JWT_EXPIRY_HOURS |-> h],
                  t |-> t, d |-> d, op |-> op] :
                    h \in EnvExpiryHours, t \in MintTimes, d \in MintDelays, op \in MintOps}
    /\ vout = NoVerify

\* A user registers and logs in at vin.t; for "refresh", the refresh token
\* of that login is presented vin.d seconds later.
MintCall ==
    /\ vin.done /\ ~vout.done
    /\ LET input == [email |-> EmailA, password |-> PwGood, role |-> "None"]
           us == register(<<>>, input).users
           l == login(us, <<>>, [email |-> EmailA, password |-> PwGood], vin.t, "none")
           at == IF vin.op = "login" THEN vin.t ELSE vin.t + vin.d
           r == refresh_token(us, l.sessions, HeaderText("Bearer", l.out.refresh_token),
                              at, "none", 1)
       IN  vout' = [done |-> TRUE, op |-> "mint",
                    result |-> [config |-> load_auth(vin.environment),
                                out |-> IF vin.op = "login" THEN l.out ELSE r.out,
                                expires_at |-> access_expires_at(at),
                                at |-> at]]
    /\ UNCHANGED <<vin, authVars, raceVars, rateVars>>

SpecLifetime == InitLifetime /\ [][MintCall]_vars

(***************************************************************************)
(* User rows that disappear.  The handlers never delete a user; whatever   *)
(* else writes the database may.  Ids are never used again, so the row     *)
(* removed is the newest and nobody registers after a removal.             *)
(***************************************************************************)
\* The row refresh_token's "SELECT * FROM users WHERE id = $1" looks for is
\* gone: the newest user row has been deleted.
DeleteUser ==
    /\ Len(users) > 0
    /\ users' = SubSeq(users, 1, Len(users) - 1)
    /\ UNCHANGED <<now, ticks, sessions, issued, rotated, regpw, resp>>
    /\ UNCHANGED <<raceVars, rateVars, verifyVars>>

NextOrphan ==
    \/ \E e \in SessionEmails : Len(users) = Len(regpw) /\ Register(e, PwGood, "None")
    \/ \E e \in SessionEmails : Login(e, PwGood)
    \/ DeleteUser
    \/ \E h \in RefreshHeaders : Refresh(h, "none")
    \/ \E d \in TickSteps : Tick(d)

SpecOrphan == Init /\ [][NextOrphan]_vars

(***************************************************************************)
(*                              The claims                                 *)
(***************************************************************************)

\* C1 (as claimed; checked under SpecReplay): a refresh token that a
\* successful Refresh has already consumed is never accepted again: a
\* later Refresh presenting it does not succeed.
C1_ConsumedTokenRejected ==
    (resp.op = "refresh" /\ resp.replay) => resp.out.status # 200

\* C2 (as claimed; checked under SpecRace): of two Refresh calls that ran
\* concurrently and presented the same refresh token, at most one returns
\* 200 with a new token pair.
C2_AtMostOneConcurrentWinner ==
    \A p \in Calls, q \in Calls :
        (/\ p # q
         /\ rpc[p] = "done" /\ rpc[q] = "done"
         /\ q \in rreq[p].peers
         /\ rreq[p].cred = rreq[q].cred)
        => ~(rreq[p].out.status = 200 /\ rreq[q].out.status = 200)

\* C3 (as claimed; checked under Spec): in every reachable state, for every
\* token string at most one unexpired session row has a hash that verifies
\* against it.
C3_OneLiveSessionPerToken ==
    \A t \in issued \cup {Garbage} :
        Cardinality({i \in 1..Len(sessions) :
                        /\ sessions[i].expires_at > now
                        /\ BcryptVerify(CredentialBcryptInput(t), sessions[i].token_hash)}) <= 1

\* C4 (as claimed; checked under SpecUsers): for a registered user, Login
\* succeeds if the password is exactly the one the user registered with,
\* and fails with AuthenticationError (401) if it differs from it.
C4_LoginIffExactPassword ==
    [][\A e \in Emails, p \in Passwords :
          (Login(e, p) /\ EmailTaken(users, e))
          => IF p = regpw[UserByEmail(users, e)]
             THEN resp'.out.status = 200
             ELSE resp'.out.kind = "Authentication" /\ resp'.out.status = 401]_vars

\* C5 (as claimed; checked under SpecVerify): verify_token returns no
\* claims and fails with AuthenticationError (401) for a token signed with
\* another secret than the verifier's, for a token whose expiry is earlier
\* than the current time, and for a token cut short.
C5_BadTokenMade ==
    \/ vin.made.key # vin.secret
    \/ vin.made.exp < vin.now
    \/ vin.made.shape.parts < 3
    \/ vin.made.shape.cut

\* C5: whenever verify_token has run on such a token, its result carries no
\* claims and its error is of kind Authentication with status 401.
C5_RejectsBadTokens ==
    (vout.done /\ C5_BadTokenMade)
    => /\ ~vout.result.ok
       /\ vout.result.err.kind = "Authentication"
       /\ StatusOf(vout.result.err) = 401

\* C6 (as claimed; checked under SpecRate): when the first 11 requests of
\* one client identity are decided with no time elapsing, exactly 10 are
\* admitted and the 11th is rejected.
C6_TenOfElevenAdmitted ==
    \A id \in DOMAIN first :
        (/\ mono = first[id]
         /\ inflight[id] = 0
         /\ admitted[id] + rejected[id] = ConfigBurstSize + 1)
        => (admitted[id] = ConfigBurstSize /\ rejected[id] = 1)

\* C7 (as claimed; checked under SpecRate): under any interleaving of the
\* lookups and checks of one identity's requests, the number admitted since
\* its first request never exceeds burst + floor(elapsed / interval), with
\* the burst and the interval of the configuration (10, one second).
C7_AdmittedWithinConfiguredBound ==
    \A id \in DOMAIN first :
        admitted[id] <= ConfigQuota.max_burst
                          + ((mono - first[id]) \div ConfigQuota.replenish_1_per)

\* C8 (as claimed; checked under SpecUsers): Register with an email that
\* already has a user row returns Conflict (409), Register with an invalid
\* email or a password shorter than 8 returns Validation (400), and neither
\* changes the users table.
C8_AsClaimed ==
    [][\A e \in Emails, p \in Passwords, r \in RoleInputs :
          Register(e, p, r)
          => /\ EmailTaken(users, e)
                  => (resp'.out.kind = "Conflict" /\ resp'.out.status = 409
                      /\ users' = users)
             /\ (~IsEmail(e) \/ Len(p) < MinPasswordLen)
                  => (resp'.out.kind = "Validation" /\ resp'.out.status = 400
                      /\ users' = users)]_vars

\* C8 (amended; checked under SpecUsers): Register with an invalid email or
\* a password shorter than 8 returns Validation (400), whether or not the
\* email has a user row; Register with valid input whose email already has
\* a user row returns Conflict (409); neither changes the users table.
\* Stated as: no step of Register on such input ends otherwise.
C8_ValidationBeforeConflict ==
    [][resp'.op = "register" =>
          LET refused400 == /\ resp'.out.kind = "Validation" /\ resp'.out.status = 400
                            /\ users' = users
              refused409 == /\ resp'.out.kind = "Conflict" /\ resp'.out.status = 409
                            /\ users' = users
          IN  \A e \in Emails, p \in Passwords :
                (\/ (~IsEmail(e) \/ Len(p) < MinPasswordLen) /\ ~refused400
                 \/ (IsEmail(e) /\ Len(p) >= MinPasswordLen /\ EmailTaken(users, e))
                        /\ ~refused409)
                => \A r \in RoleInputs : ~Register(e, p, r)]_vars

\* A Register with an email that already had a user row was answered
\* Conflict (409).
C8_Witness ==
    /\ resp.op = "register"
    /\ resp.out.status = 409
    /\ resp.out.kind = "Conflict"
    /\ Len(users) >= 1

\* C9 (checked under Spec): a Refresh that does not return 200 leaves every
\* session row's hash and expiry as they were; when the header is missing,
\* not text or not Bearer, or (the session list having been read) no
\* unexpired row's hash matches the presented token, the error is
\* Authentication (401).  Stated as: no step of Refresh that does not
\* return 200 ends otherwise.
C9_FailedRefreshChangesNothing ==
    [][(resp'.op = "refresh" /\ resp'.out.status # 200) =>
          /\ sessions' # sessions
                => \A h \in RefreshHeaders, f \in Faults : ~Refresh(h, f)
          /\ ~(resp'.out.kind = "Authentication" /\ resp'.out.status = 401)
                => \A h \in RefreshHeaders, f \in Faults :
                      (\/ h.kind # "text"
                       \/ h.scheme # "Bearer"
                       \/ /\ f # "list"
                          /\ \A i \in 1..Len(sessions) :
                                ~(/\ sessions[i].expires_at > now
                                  /\ BcryptVerify(CredentialBcryptInput(h.cred),
                                                  sessions[i].token_hash)))
                      => ~Refresh(h, f)]_vars

\* A Refresh failed on the rotation path or at the scan while a live session
\* row existed.
C9_Witness ==
    /\ resp.op = "refresh"
    /\ resp.out.status # 200
    /\ resp.out.kind \in {"Database", "Authentication"}
    /\ \E i \in 1..Len(sessions) : sessions[i].expires_at > now

\* C10 (checked under Spec): a Refresh with a Bearer credential for which
\* every session row whose hash matches has expires_at <= now does not
\* return 200 and leaves the session rows as they were; unless the session
\* list could not be read, its error is Authentication (401).  Stated as:
\* no step of Refresh with such a credential ends otherwise.
C10_ExpiredSessionNeverRefreshed ==
    [][resp'.op = "refresh" =>
          LET refused401 == resp'.out.kind = "Authentication" /\ resp'.out.status = 401
              revived == resp'.out.status = 200 \/ sessions' # sessions
          IN  \A h \in RefreshHeaders :
                (/\ h.kind = "text" /\ h.scheme = "Bearer"
                 /\ \A i \in 1..Len(sessions) :
                       BcryptVerify(CredentialBcryptInput(h.cred), sessions[i].token_hash)
                       => sessions[i].expires_at <= now)
                => \A f \in Faults :
                      (revived \/ (f # "list" /\ ~refused401)) => ~Refresh(h, f)]_vars

\* A Refresh was refused as "Invalid refresh token" while every session row
\* was expired and some row's hash matched a token that had been issued.
C10_Witness ==
    /\ resp.op = "refresh"
    /\ resp.out.message = "Invalid refresh token"
    /\ sessions # <<>>
    /\ \A i \in 1..Len(sessions) : sessions[i].expires_at <= now
    /\ \E i \in 1..Len(sessions), t \in issued :
          BcryptVerify(CredentialBcryptInput(t), sessions[i].token_hash)

\* C11 (as claimed; checked under SpecUsers): in every reachable state, a
\* Login with a valid email that has no user row and a Login with an email
\* that has one but a password other than the registered one are answered
\* alike: same error kind, status 401, same message, and neither adds a
\* session row.
C11_UnknownEmailLikeWrongPassword ==
    \A e1 \in Emails, e2 \in Emails, p1 \in Passwords, p2 \in Passwords :
        (/\ IsEmail(e1) /\ ~EmailTaken(users, e1)
         /\ EmailTaken(users, e2) /\ p2 # regpw[UserByEmail(users, e2)])
        => LET a == login(users, sessions, [email |-> e1, password |-> p1], now, "none")
               b == login(users, sessions, [email |-> e2, password |-> p2], now, "none")
           IN  /\ a.out.status = 401 /\ b.out.status = 401
               /\ a.out.kind = b.out.kind
               /\ a.out.message = b.out.message
               /\ a.sessions = sessions /\ b.sessions = sessions

\* C12 (as claimed; checked under Spec): every 401 carries the same
\* message: a handler's 401 that follows another handler's 401 has the
\* message of the earlier one.
C12_OneGenericMessage ==
    [][(resp.out.status = 401 /\ resp'.out.status = 401)
          => resp'.out.message = resp.out.message]_vars

\* C13 (as claimed; checked under Spec): the body of a 200 response of
\* Register, Login or Refresh has no password_hash field in its user.
C13_NoPasswordHashInBody ==
    (resp.op \in {"register", "login", "refresh"} /\ resp.out.status = 200)
    => "password_hash" \notin DOMAIN ResponseBody(resp.op, users, resp.out).user

\* C14 (checked under SpecIdentity): get_user_from_token on a token that
\* is whole, signed with the server's secret and unexpired never returns a
\* user and fails with Authentication (401) when its subject is not a
\* well-formed id, and (the users table having been read) when no user row
\* has its subject.
C14_MissingSubjectRejected ==
    (/\ vout.done /\ vout.op = "resolve"
     /\ vin.made.key = JwtSecret /\ vin.made.shape.parts = 3
     /\ vin.token[2].exp >= vin.now
     /\ \/ vin.made.sub = MalformedSub
        \/ vin.fault = "none" /\ vin.made.sub > Len(vin.users))
    => /\ ~vout.result.ok
       /\ vout.result.err.kind = "Authentication"
       /\ StatusOf(vout.result.err) = 401

\* get_user_from_token refused a valid, unexpired token whose user row is
\* gone.
C14_Witness ==
    /\ vout.done /\ vout.op = "resolve"
    /\ vin.made.key = JwtSecret /\ vin.made.shape.parts = 3
    /\ vin.token[2].exp >= vin.now
    /\ vin.made.sub # MalformedSub /\ vin.made.sub > Len(vin.users)
    /\ vin.fault = "none"
    /\ ~vout.result.ok
    /\ vout.result.err.msg = "User not found"

\* C15 (as claimed; checked under SpecScenario): a protected route called
\* with an access token that login or refresh_token issued and whose expiry
\* has passed answers 401.  /graphql is the route of the application's
\* data.
C15_ExpiredAccessTokenGets401 ==
    [][resp'.out.status # 401
        => \A c \in issued :
              (AccessTokenOf(c)[2].exp + JwtLeeway < now)
              => ~(/\ Serve("/graphql", HeaderText("Bearer", AccessTokenOf(c)))
                   /\ resp'.handled)]_vars

\* C16 (as claimed; checked under SpecIdentity): a refresh token presented
\* to get_user_from_token, or as the Bearer credential to auth_middleware,
\* is never accepted: no user is returned and the downstream handler is
\* not invoked.
C16_RefreshTokenOnlyAtRefresh ==
    (vout.done /\ vin.made.kind = "refresh")
    => /\ vout.op = "resolve" => ~vout.result.ok
       /\ (vout.op = "auth" /\ vin.header.kind = "text" /\ vin.header.scheme = "Bearer")
            => ~vout.result.invoked

\* C17 (checked under SpecRouter): on every route a request the limiter
\* rejects is answered 429 with code RATE_LIMITED, its handler does not
\* run and the users and sessions tables stay as they were; a handler
\* runs only for a request the limiter admitted.
C17_AdmissionBeforeHandler ==
    [][/\ rejected' # rejected
            => /\ resp'.out.status = 429
               /\ resp'.out.code = "RATE_LIMITED"
               /\ resp'.out.message = "Rate limit exceeded"
               /\ ~resp'.handled
               /\ users' = users /\ sessions' = sessions /\ issued' = issued
       /\ (users' # users \/ sessions' # sessions \/ issued' # issued)
            => (admitted' # admitted /\ resp'.handled)]_vars

\* A login that would have succeeded was rejected by the limiter.
C17_Witness ==
    /\ resp.op = "/auth/login"
    /\ resp.out.status = 429
    /\ ~resp.handled
    /\ users # <<>>
    /\ Len(sessions) < MaxSessions

\* C18 (checked under SpecIdentity): auth_middleware invokes the downstream
\* handler only when the header is Bearer <token>, the token verifies and
\* its subject has a user row, and then the attached identity is that row
\* with the token's claims; otherwise the handler is not invoked, nothing
\* is attached and (the users table being readable) the answer is 401.
C18_AuthMiddlewareGate ==
    (vout.done /\ vout.op = "auth")
    => LET h == vin.header
           verifies == /\ h.kind = "text" /\ h.scheme = "Bearer"
                       /\ verify_token(h.cred, JwtSecret, vin.now).ok
           resolves == /\ verifies
                       /\ h.cred[2].sub # MalformedSub
                       /\ h.cred[2].sub <= Len(vin.users)
       IN  /\ vout.result.invoked
                => /\ resolves
                   /\ vout.result.context.user = UserOf(vin.users, h.cred[2].sub)
                   /\ vout.result.context.claims = h.cred[2]
           /\ ~vout.result.invoked
                => /\ vout.result.context = NoContext
                   /\ vin.fault = "none" => (~resolves /\ vout.result.out.status = 401)
                   /\ ~verifies => vout.result.out.status = 401

\* auth_middleware forwarded a request with the identity of user row 2.
C18_Witness ==
    /\ vout.done /\ vout.op = "auth"
    /\ vout.result.invoked
    /\ vout.result.context.user.id = 2
    /\ vout.result.context.user.role = "User"

\* C19 (checked under SpecIdentity): admin_auth_middleware invokes the
\* downstream handler only when the credential is valid and the resolved
\* user's role is Admin; a valid identity with another role is answered
\* Authorization (403), an absent or invalid credential 401; in both
\* failure cases the handler is not invoked and nothing is attached.
C19_AdminMiddlewareGate ==
    (vout.done /\ vout.op = "admin")
    => LET h == vin.header
           verifies == /\ h.kind = "text" /\ h.scheme = "Bearer"
                       /\ verify_token(h.cred, JwtSecret, vin.now).ok
           resolves == /\ verifies
                       /\ h.cred[2].sub # MalformedSub
                       /\ h.cred[2].sub <= Len(vin.users)
       IN  /\ vout.result.invoked
                => /\ resolves
                   /\ vin.users[h.cred[2].sub].role = "Admin"
                   /\ vout.result.context.user = UserOf(vin.users, h.cred[2].sub)
           /\ ~vout.result.invoked
                => /\ vout.result.context = NoContext
                   /\ ~verifies => vout.result.out.status = 401
                   /\ vin.fault = "none"
                        => IF resolves
                           THEN /\ vin.users[h.cred[2].sub].role # "Admin"
                                /\ vout.result.out.kind = "Authorization"
                                /\ vout.result.out.status = 403
                           ELSE vout.result.out.status = 401

\* admin_auth_middleware answered 403 to a valid token of the Viewer.
C19_Witness ==
    /\ vout.done /\ vout.op = "admin"
    /\ ~vout.result.invoked
    /\ vout.result.out.status = 403
    /\ vin.header.kind = "text" /\ vin.header.scheme = "Bearer"
    /\ vin.made.sub = 3 /\ Len(vin.users) = 3

\* C20 (as claimed; checked under SpecClientIp): the identity admission
\* uses is the first entry of X-Forwarded-For when that header is readable,
\* otherwise the X-Real-IP value when readable, otherwise the peer address
\* of the connection; "unknown" never stands for a connected client.
C20_IdentityFallsBackToPeer ==
    (vout.done /\ vout.op = "identify")
    => vout.result = IF vin.xff.kind = "text" THEN Trim(vin.xff.value[1])
                     ELSE IF vin.real_ip.kind = "text" THEN vin.real_ip.value
                     ELSE vin.addr

\* C21 (checked under SpecErrors): into_response gives each error kind its
\* fixed status (Validation 400, Authentication 401, Authorization 403,
\* Conflict 409, RateLimited 429, Database and Internal 500), and for
\* Database and Internal the message is one constant per kind, whatever
\* the underlying error's text.
C21_FixedStatusOpaqueInternals ==
    (vout.done /\ vout.op = "respond")
    => LET k == vin.err.kind
           r == vout.result
       IN  /\ k = "Validation" => r.status = 400
           /\ k = "Authentication" => r.status = 401
           /\ k = "Authorization" => r.status = 403
           /\ k = "Conflict" => r.status = 409
           /\ k = "RateLimited" => r.status = 429
           /\ k \in {"Database", "Internal"} => r.status = 500
           /\ k \in {"Database", "Internal"}
                => /\ r.message # vin.err.msg
                   /\ \A d \in ErrorDetails : r.message = ErrResponse(AppError(k, d)).message
           /\ \A d \in ErrorDetails : r.status = ErrResponse(AppError(k, d)).status

\* A database error whose text names a table was answered 500 with the
\* constant message.
C21_Witness ==
    /\ vout.done /\ vout.op = "respond"
    /\ vin.err = AppError("Database", "relation user_sessions does not exist")
    /\ vout.result.status = 500
    /\ vout.result.message = "Database error occurred"

\* C22 (as claimed; checked under SpecConfig): loading the configuration
\* fails whenever the signing secret has fewer than 32 characters, so the
\* secret of a loaded configuration has at least 32 characters.
C22_ShortSecretNeverLoads ==
    (vout.done /\ vout.op = "load" /\ vout.result.ok)
    => Len(vout.result.config.jwt_secret) >= 32

\* C23 (checked under Spec): a Refresh that returns 200 leaves the number
\* of session rows as it was; one unexpired row whose hash matched the
\* presented token keeps its place and owner, gets the hash of the
\* returned refresh token and the expiry now + 30 days; the response's
\* user and both tokens' subjects are that row's owner; every other row is
\* as it was.  Stated as: no step of Refresh returns 200 otherwise.
C23_RefreshRotatesOneRowInPlace ==
    [][(resp'.op = "refresh" /\ resp'.out.status = 200) =>
          LET newhash == BcryptHash(CredentialBcryptInput(resp'.out.refresh_token))
              rotated_in_place(sid) ==
                  /\ sessions'[sid].user_id = sessions[sid].user_id
                  /\ sessions'[sid].token_hash = newhash
                  /\ sessions'[sid].expires_at = now + RefreshTtl
                  /\ resp'.out.uid = sessions[sid].user_id
                  /\ resp'.out.access_token[2].sub = sessions[sid].user_id
                  /\ resp'.out.refresh_token[2].sub = sessions[sid].user_id
                  /\ \A j \in 1..Len(sessions) : j # sid => sessions'[j] = sessions[j]
          IN  \A h \in RefreshHeaders :
                ~(/\ h.kind = "text" /\ h.scheme = "Bearer"
                  /\ Len(sessions') = Len(sessions)
                  /\ \E sid \in MatchingSessions(sessions, h.cred, now) :
                        rotated_in_place(sid))
                => \A f \in Faults : ~Refresh(h, f)]_vars

\* A Refresh returned 200 while another user's session row existed.
C23_Witness ==
    /\ resp.op = "refresh"
    /\ resp.out.status = 200
    /\ \E i, j \in 1..Len(sessions) :
          /\ sessions[i].user_id = resp.out.uid
          /\ sessions[i].token_hash = BcryptHash(CredentialBcryptInput(resp.out.refresh_token))
          /\ sessions[j].user_id # resp.out.uid

\* C24 (checked under SpecWrites): a Login that returns 200 appends exactly
\* one session row and changes no existing row; the new row is owned by
\* the user whose email and password were given, has no field but the
\* owner, the bcrypt hash of the returned refresh token and the expiry
\* now + 30 days; a Login that returns an error leaves the session rows as they
\* were.  Stated as: no step of Login ends otherwise.
C24_LoginInsertsOneHashedRow ==
    [][resp'.op = "login" =>
          LET out == resp'.out
              row == sessions'[Len(sessions')]
              inserted ==
                  /\ Len(sessions') = Len(sessions) + 1
                  /\ SubSeq(sessions', 1, Len(sessions)) = sessions
                  /\ DOMAIN row = {"user_id", "token_hash", "expires_at"}
                  /\ row.user_id = out.uid
                  /\ row.token_hash = BcryptHash(CredentialBcryptInput(out.refresh_token))
                  /\ row.expires_at = now + RefreshTtl
              asClaimed(e, p) ==
                  IF out.status = 200
                  THEN /\ inserted
                       /\ users[out.uid].email = e
                       /\ BcryptVerify(BcryptInput(p), users[out.uid].password_hash)
                  ELSE sessions' = sessions
          IN  \A e \in SessionEmails, p \in WritePasswords :
                ~asClaimed(e, p) => \A f \in LoginFaults : ~LoginStep(e, p, f)]_vars

\* A Login returned 200 and appended a row after another user's row.
C24_Witness ==
    /\ resp.op = "login"
    /\ resp.out.status = 200
    /\ Len(sessions) = 2
    /\ sessions[2].user_id = resp.out.uid
    /\ sessions[1].user_id # resp.out.uid
    /\ sessions[2].token_hash = BcryptHash(CredentialBcryptInput(resp.out.refresh_token))

\* C25 (checked under SpecWrites): the client receives a refresh token only
\* in a step in which the session row holding that token's hash, with the
\* expiry now + 30 days, is written; a Login or Refresh whose write
\* fails, or that is abandoned, hands out no token.
C25_TokensOnlyAfterCommit ==
    [][/\ issued' # issued
            => /\ resp'.op \in {"login", "refresh"}
               /\ resp'.out.status = 200
               /\ now' = now
               /\ issued' = issued \cup {resp'.out.refresh_token}
       /\ (resp'.op \in {"login", "refresh"} /\ resp'.out.status = 200 /\ now' = now)
            => LET c == resp'.out.refresh_token IN
               /\ c \in issued'
               /\ \E i \in 1..Len(sessions') :
                     /\ sessions'[i].token_hash = BcryptHash(CredentialBcryptInput(c))
                     /\ sessions'[i].expires_at = now + RefreshTtl
                     /\ sessions'[i].user_id = c[2].sub
                     /\ resp'.op = "login" => i = Len(sessions) + 1
                     /\ resp'.op = "refresh" => (i <= Len(sessions) /\ sessions[i].expires_at > now)
       /\ (resp'.op \in {"login", "refresh"} /\ resp'.out.status # 200)
            => /\ issued' = issued
               /\ resp'.out.access_token = NoToken
               /\ resp'.out.refresh_token = NoToken]_vars

\* A Login was abandoned at its INSERT, the row was written, and no token
\* of that instant was handed out.
C25_Witness ==
    /\ resp.op = "login"
    /\ resp.out = NoResponse
    /\ Len(sessions) >= 1
    /\ \A c \in issued :
          sessions[Len(sessions)].token_hash # BcryptHash(CredentialBcryptInput(c))

\* C26 (checked under SpecVerify): the outcome of verify_token is decided by
\* the token, the secret and the clock alone -- it returns the token's
\* claims exactly when the token is whole, signed with the verifier's
\* secret and not expired by more than the leeway, whatever the users
\* table holds -- and the call leaves the users and sessions tables as they
\* were.
C26_VerifyTouchesNoStore ==
    vout.done
    => LET whole == vin.made.shape.parts = 3 /\ ~vin.made.shape.cut
           accepted == /\ whole
                       /\ vin.made.key = vin.secret
                       /\ vin.made.exp + JwtLeeway >= vin.now
       IN  /\ vout.result.ok <=> accepted
           /\ vout.result.ok => vout.result.claims = vin.token[2]
           /\ ~vout.result.ok => vout.result.err.kind = "Jwt"
           /\ users = <<>> /\ sessions = <<>>

\* A token was verified and its claims returned while the users table had
\* no row for its subject.
C26_Witness ==
    /\ vout.done
    /\ vout.result.ok
    /\ vout.result.claims.sub = 1
    /\ Len(users) = 0

\* C27 (checked under SpecIdentity): the user that get_user_from_token
\* returns and that the middlewares attach is the row now stored for the
\* token's subject, with its stored role; the admin middleware forwards a
\* verified token exactly when the stored role is Admin and answers 403
\* otherwise, whatever role the token's claims carry.
C27_LiveRoleDecides ==
    (vout.done /\ vin.fault = "none")
    => LET h == vin.header
           stored == vin.users[vin.made.sub]
           resolves == /\ verify_token(vin.token, JwtSecret, vin.now).ok
                       /\ vin.made.sub # MalformedSub
                       /\ vin.made.sub <= Len(vin.users)
           bearer == h.kind = "text" /\ h.scheme = "Bearer"
       IN  /\ (vout.op = "resolve" /\ vout.result.ok)
                => vout.result.user.role = stored.role
           /\ (vout.op \in {"auth", "admin"} /\ vout.result.invoked)
                => vout.result.context.user.role = stored.role
           /\ (vout.op = "admin" /\ bearer /\ resolves)
                => IF stored.role = "Admin"
                   THEN vout.result.invoked
                   ELSE /\ ~vout.result.invoked
                        /\ vout.result.out.status = 403

\* A token minted while its user was Admin was answered 403 by the admin
\* middleware after the stored role had become User.
C27_Witness ==
    /\ vout.done /\ vout.op = "admin"
    /\ vin.header.kind = "text" /\ vin.header.scheme = "Bearer"
    /\ Len(vin.token) = 3
    /\ vin.token[2].role = "Admin"
    /\ vin.made.sub = 1
    /\ vin.users = WithRole(IdentityUsers, 1, "User")
    /\ ~vout.result.invoked
    /\ vout.result.out.status = 403

\* C28 (checked under SpecStore): the users table changes only in a step
\* of Register that returns 200, and then by exactly one row appended for
\* the registered email, every existing row staying as it was; a Register
\* that returns an error, and every step of Login, Refresh, verify_token,
\* get_user_from_token and the two middlewares, leaves the table as it
\* was.
C28_OnlyRegisterAddsOneUser ==
    [][/\ users' # users
            => /\ resp'.op = "register"
               /\ resp'.out.status = 200
               /\ Len(users') = Len(users) + 1
               /\ SubSeq(users', 1, Len(users)) = users
               /\ resp'.out.uid = Len(users')
               /\ ~EmailTaken(users, users'[Len(users')].email)
       /\ (resp'.op = "register" /\ resp'.out.status = 200 /\ users' = users)
            => \A e \in SessionEmails, r \in RoleInputs : ~Register(e, PwGood, r)
       /\ resp'.op \in {"login", "refresh"} \cup GateKinds => users' = users]_vars

\* A second user was registered after the first had logged in.
C28_Witness ==
    /\ resp.op = "register"
    /\ resp.out.status = 200
    /\ resp.out.uid = 2
    /\ Len(users) = 2
    /\ Len(sessions) >= 1

C30_BucketMapOnlyGrows ==
    /\ [](DOMAIN limiters
            = {ip \in Identities : inflight[ip] + admitted[ip] + rejected[ip] > 0})
    /\ [][/\ DOMAIN limiters \subseteq DOMAIN limiters'
          /\ \A ip \in DOMAIN limiters :
                /\ limiters[ip] # NoTat => limiters'[ip] # NoTat
                /\ inflight' # inflight /\ admitted' = admitted /\ rejected' = rejected
                      => limiters'[ip] = limiters[ip]
          /\ \A ip \in DOMAIN limiters' \ DOMAIN limiters :
                /\ limiters'[ip] = NoTat
                /\ inflight'[ip] = inflight[ip] + 1
                /\ DOMAIN limiters' = DOMAIN limiters \cup {ip}]_vars

\* Both identities have a bucket, and a later request of an identity whose
\* bucket has been checked holds that same bucket.
C30_Witness ==
    /\ DOMAIN limiters = Identities
    /\ Cardinality(Identities) = 2
    /\ \E ip \in Identities :
          /\ admitted[ip] > 0
          /\ inflight[ip] > 0
          /\ limiters[ip] # NoTat

\* C31 (checked under SpecAdmission): every call that is looking up or
\* holding a limiter has its identity's bucket in the map, concurrent
\* first requests of one identity included; a lookup of an identity that
\* has a bucket creates none; and that one bucket carries the consumption
\* of every request admitted for the identity: it is no fresh bucket once
\* a request was admitted, and its arrival time is at least the time of
\* the identity's first request plus one interval per admitted request.
C31_OneSharedBucket ==
    /\ [](/\ \A p \in Calls : rpc[p] \in {"lookup", "holding"}
                                   => rreq[p].ip \in DOMAIN limiters
          /\ \A ip \in DOMAIN limiters :
                admitted[ip] > 0
                => /\ limiters[ip] # NoTat
                   /\ limiters[ip] >= first[ip]
                                         + admitted[ip] * LayerQuota.replenish_1_per)
    /\ [][\A p \in Calls :
             (rpc[p] = "idle" /\ rpc'[p] = "lookup" /\ rreq'[p].ip \in DOMAIN limiters)
             => limiters' = limiters]_vars

\* Two calls hold the limiter of the same identity, neither has checked
\* it, and no request of that identity was checked before.
C31_Witness ==
    /\ rpc[1] = "holding" /\ rpc[2] = "holding"
    /\ rreq[1].ip = rreq[2].ip
    /\ inflight[rreq[1].ip] = 2
    /\ admitted[rreq[1].ip] = 0 /\ rejected[rreq[1].ip] = 0
    /\ limiters[rreq[1].ip] = NoTat

\* C32 (checked under SpecAdmission): a call whose check succeeds passes
\* its request, as received, to the inner service once; a call whose check
\* fails passes nothing and is answered 429.  The check of a call changes
\* the bucket of its own identity only: by one interval when it succeeds,
\* not at all when it fails.
C32_ForwardOncePerToken ==
    /\ [](\A p \in Calls :
             /\ rpc[p] = "downstream" \/ rreq[p].status = 200
                   => rreq[p].calls = 1 /\ rreq[p].forwarded = rreq[p].request
             /\ rreq[p].status = 429 => rreq[p].calls = 0 /\ rreq[p].forwarded = <<>>)
    /\ [][\A p \in Calls :
             (rpc[p] = "holding" /\ rpc'[p] # "holding")
             => LET ip == rreq[p].ip
                    t == LayerQuota.replenish_1_per
                    base == IF limiters[ip] = NoTat THEN mono + t ELSE limiters[ip]
                IN  /\ \A k \in DOMAIN limiters \ {ip} : limiters'[k] = limiters[k]
                    /\ DOMAIN limiters' = DOMAIN limiters
                    /\ IF rpc'[p] = "downstream"
                       THEN /\ limiters'[ip] = MaxOf(base, mono) + t
                            /\ admitted'[ip] = admitted[ip] + 1 /\ rejected' = rejected
                       ELSE /\ limiters' = limiters
                            /\ rejected'[ip] = rejected[ip] + 1 /\ admitted' = admitted
                            /\ rreq'[p].status = 429]_vars

\* One call was refused and passed nothing on while the other was admitted
\* and passed its request on.
C32_Witness ==
    \E p, q \in Calls :
        /\ rpc[p] = "idle" /\ rreq[p].status = 429 /\ rreq[p].calls = 0
        /\ rpc[q] = "downstream" /\ rreq[q].calls = 1
        /\ rreq[q].forwarded = rreq[q].request
        /\ rreq[p].ip = rreq[q].ip

\* C33 (checked under SpecAdmission): the guard of the bucket map is held
\* only inside the lookup; a call that holds its limiter can always take
\* its check, and a call can always enter the lookup while other calls are
\* downstream; a refused call is answered 429 in the step of its check,
\* with no time passing.
C33_DecisionNeverWaits ==
    /\ [](/\ \A p \in Calls : rreq[p].guard => rpc[p] = "lookup"
          /\ \A p \in Calls : rpc[p] = "holding" => ENABLED CheckCall(p)
          /\ \A p \in Calls :
                (/\ rpc[p] = "idle"
                 /\ \A q \in Calls \ {p} : rpc[q] \in {"idle", "holding", "downstream"}
                 /\ TotalStarted < MaxAdmissions)
                => ENABLED EnterLookup(p, HeavyClient))
    /\ [][\A p \in Calls :
             (rpc[p] = "holding" /\ rejected' # rejected /\ rreq'[p] # rreq[p])
             => rpc'[p] = "idle" /\ rreq'[p].status = 429 /\ mono' = mono]_vars

\* The downstream handler of one client is still running, and a request
\* of another client, whose bucket is used up, has been refused.
C33_Witness ==
    \E p, q \in Calls :
        /\ rpc[q] = "downstream" /\ admitted[rreq[q].ip] = 1
        /\ rreq[p].ip # rreq[q].ip
        /\ rpc[p] = "idle" /\ rreq[p].status = 429
        /\ rejected[rreq[p].ip] >= 1
        /\ ~rreq[q].guard

\* C34 (as claimed; checked under SpecClientIp): when X-Forwarded-For is
\* not readable as text, or its first entry is empty or is no address, the
\* identity is the one the request would have without that header (taken
\* from X-Real-IP, then from the connection), and it is not the header's
\* first entry.
C34_MalformedForwardedForSkipped ==
    (/\ vout.done /\ vout.op = "identify"
     /\ \/ vin.xff.kind = "binary"
        \/ vin.xff.kind = "text" /\ Trim(vin.xff.value[1]) \notin PeerAddrs)
    => /\ vout.result = ClientIdentity(Accept(vin.addr, HdrAbsent, vin.real_ip))
       /\ vin.xff.kind = "text" => vout.result # Trim(vin.xff.value[1])

\* C35 (as claimed; checked under SpecLifetime): the exp claim of the
\* access token login or refresh_token returns, and the expires_at
\* returned with it, are the time of the call plus the configured
\* jwt_expiry_hours.
C35_AccessExpiryFollowsConfig ==
    (vout.done /\ vout.op = "mint" /\ vout.result.out.status = 200)
    => /\ vout.result.out.access_token[2].exp
             = vout.result.at + vout.result.config.jwt_expiry_hours * 3600
       /\ vout.result.expires_at
             = vout.result.at + vout.result.config.jwt_expiry_hours * 3600

\* C36 (as claimed; checked under Spec): the refresh token a successful
\* login or refresh_token returns is none of the refresh tokens issued
\* before that call.
C36_RefreshTokenAlwaysNew ==
    [][(/\ sessions' # sessions
        /\ resp'.op \in {"login", "refresh"}
        /\ resp'.out.status = 200)
       => resp'.out.refresh_token \notin issued]_vars

\* C37 (as claimed; checked under Spec): a Refresh that returns 200 was
\* given a Bearer credential that is, whole, the refresh token last issued
\* for some unexpired session row (the one minted when the row's present
\* expiry was set).  Stated as: no step of Refresh with any other
\* credential returns 200.
C37_OnlyTheCurrentTokenRefreshes ==
    [][(resp'.op = "refresh" /\ resp'.out.status = 200) =>
          \A h \in RefreshHeaders :
             (\/ h.kind # "text"
              \/ h.scheme # "Bearer"
              \/ \A i \in UnexpiredSessions(sessions, now) :
                    h.cred # generate_refresh_token(users, sessions[i].user_id,
                                                    sessions[i].expires_at - RefreshTtl))
             => \A f \in Faults : ~Refresh(h, f)]_vars

\* C38 (checked under SpecOrphan): a Refresh whose credential matches an
\* unexpired session row owned by a user that no longer exists does not
\* return 200: it returns an error with no access and no refresh token,
\* issues nothing, and leaves the session rows as they were.  Stated as:
\* no step of Refresh with such a credential ends otherwise.
C38_RefreshOfDeletedUserFails ==
    [][resp'.op = "refresh" =>
          LET failed == /\ resp'.out.status >= 400
                        /\ resp'.out.access_token = NoToken
                        /\ resp'.out.refresh_token = NoToken
                        /\ issued' = issued
                        /\ sessions' = sessions
          IN  \A h \in RefreshHeaders :
                (/\ h.kind = "text" /\ h.scheme = "Bearer"
                 /\ MatchingSessions(sessions, h.cred, now) # {}
                 /\ \A i \in MatchingSessions(sessions, h.cred, now) :
                       sessions[i].user_id > Len(users))
                => (~failed => ~Refresh(h, "none"))]_vars

\* A Refresh was answered with the database error while an unexpired
\* session row of a deleted user was in the table, some time after that
\* row was written.
C38_Witness ==
    /\ resp.op = "refresh"
    /\ resp.out.kind = "Database" /\ resp.out.status = 500
    /\ \E i \in 1..Len(sessions) :
          /\ sessions[i].user_id > Len(users)
          /\ sessions[i].expires_at > now
          /\ sessions[i].expires_at < now + RefreshTtl

\* C39 (checked under SpecAdmission): the bucket of an identity changes
\* only in the step in which a call of that identity takes its check; the
\* lookups, checks and downstream handlers of other identities and the
\* passing of time leave it as it is.  A check is decided by the bucket of
\* the call's own identity and the time alone, so the first request ever
\* checked for an identity is admitted whatever the others have used up.
C39_OtherIdentitiesDoNotInterfere ==
    [][/\ \A ip \in DOMAIN limiters :
             (\A p \in Calls : ~(/\ rpc[p] = "holding" /\ rpc'[p] # "holding"
                                  /\ ClientIdentity(rreq[p].request) = ip))
             => limiters'[ip] = limiters[ip]
       /\ \A p \in Calls :
             (rpc[p] = "holding" /\ rpc'[p] # "holding")
             => LET ip == ClientIdentity(rreq[p].request) IN
                /\ (rpc'[p] = "downstream")
                      <=> GcraCheck(LayerQuota, limiters[ip], mono).ok
                /\ admitted[ip] + rejected[ip] = 0 => rpc'[p] = "downstream"]_vars

\* One identity used up its burst of 60 and was refused; the other
\* identity, first seen later, had its request admitted.
C39_Witness ==
    \E a, b \in Identities :
        /\ a # b
        /\ admitted[a] = LayerQuota.max_burst /\ rejected[a] >= 1
        /\ b \in DOMAIN first /\ first[b] > first[a]
        /\ admitted[b] = 1
        /\ \E q \in Calls : rpc[q] = "downstream" /\ rreq[q].ip = b

====
